---- MODULE Spec2Model ----
(***************************************************************************)
(* A model of the publishing pipeline of social-compliance-generator:      *)
(*   - the live run  generatePost  and the replay tool  repostRun,         *)
(*     over the R2 workflow store (specification Spec);                    *)
(*   - xApiRequest / refreshAccessToken over the module-level tokenStore   *)
(*     (specification SpecAuth);                                           *)
(*   - uploadMediaV2 / waitForMediaProcessing inside createVideoPost and   *)
(*     createImagePost (specification SpecUpload);                         *)
(*   - the model fallback loops of generateImage and generateVideoWithVeo  *)
(*     (specification SpecFallback).                                       *)
(* Each specification moves only its own variables; the others keep the    *)
(* value its Idle predicate gives them.                                    *)
(***************************************************************************)
EXTENDS Integers, Sequences, FiniteSets, TLC

VARIABLES
    \* ---- live run (generatePost) ----
    pcRun,        \* position of generatePost between its awaits
    workflow,     \* the in-memory WorkflowRun of the live run
    newsResults,  \* local newsResults: number of results (-1 = unassigned)
    content,      \* local content returned by generateContent
    imagePath,    \* local imagePath (FALSE = null)
    videoPath,    \* local videoPath (FALSE = null)
    imageKey,     \* local imageKey returned by saveWorkflowImage
    videoKey,     \* local videoKey returned by saveWorkflowVideo
    postId,       \* local postId returned by createVideoPost/createImagePost
    thrown,       \* the error travelling to a catch block
    runExit,      \* process exit code of the live run (-1 = still running)
    calls,        \* collaborators called by the live run, in call order
    \* ---- R2 store and platform ----
    r2Configured, \* isR2Configured()
    storeFaulty,  \* whether a PutObject of the store may reject
    r2Meta,       \* workflows/{runId}/metadata.json: <<>> or <<record>>
    r2Blobs,      \* media keys present under workflows/{runId}/
    r2Other,      \* keys of the objects of another run in the bucket
    posts,        \* posts created on the platform, in creation order
    now,          \* logical clock read by new Date()
    \* ---- replay (repostRun) ----
    pcReplay,     \* position of repostRun between its awaits
    rworkflow,    \* the WorkflowRun repostRun loaded: <<>> or <<record>>
    rImagePath,   \* local imagePath of repostRun
    rVideoPath,   \* local videoPath of repostRun
    rPostId,      \* local postId of repostRun
    rMediaType,   \* local mediaType of repostRun
    replayExit,   \* exit code of the last replay process (-1 = none/running)
    rcalls,       \* platform/storage calls made by the current replay
    rError,       \* the error the last replay process reported
    replays,      \* replay processes started so far
    rCommand,     \* the command of the current replay process
    rToDelete,    \* deleteWorkflowRun: listed keys not yet deleted
    \* ---- X API credentials (tokenStore, xApiRequest) ----
    tokenStore,   \* module-level tokenStore: <<>> (null) or <<record>>
    kv,           \* refresh token in Cloudflare KV (0 = no value)
    srvAccess,    \* access token the platform accepts (0 = none)
    srvRefresh,   \* refresh token the platform accepts
    issued,       \* number of token pairs the platform has issued
    req,          \* the xApiRequest calls of the process
    \* ---- upload and post (createVideoPost / createImagePost) ----
    pcU,          \* position inside createVideoPost / createImagePost
    uKind,        \* "video" (createVideoPost) or "image" (createImagePost)
    totalBytes,   \* fileBuffer.length
    mediaId,      \* media id returned by initMediaUpload (0 = none)
    chunkIdx,     \* loop variable i of uploadMediaV2
    uCalls,       \* platform calls made, in order
    procState,    \* waitForMediaProcessing: state
    checkAfterSecs, \* waitForMediaProcessing: checkAfterSecs
    elapsed,      \* Date.now() - startTime, in ms
    uError,       \* message of the error thrown (Null = none)
    uResult,      \* value returned: the tweet id (0 = none)
    uMedia,       \* media id uploadMediaV2 returned (0 = none)
    uPolls,       \* checkMediaStatus calls issued
    \* ---- model fallback (generateImage / generateVideoWithVeo) ----
    pcF,          \* position inside the fallback loop
    fService,     \* "image" or "veo"
    fIdx,         \* index of the model the loop is at
    fTried,       \* attempts made, in order: model id and what it gave
    fLastError,   \* lastError: <<>> (null) or <<error>>
    fOutcome      \* what the function returned or threw

varsRun == <<pcRun, workflow, newsResults, content, imagePath, videoPath, imageKey,
             videoKey, postId, thrown, runExit, calls>>
varsStore == <<r2Configured, storeFaulty, r2Other, r2Meta, r2Blobs, r2Other, posts,
               now>>
varsReplay == <<pcReplay, rworkflow, rImagePath, rVideoPath, rPostId,
                rMediaType, replayExit, rcalls, rError, replays, rCommand,
                rToDelete>>

varsAuth == <<tokenStore, kv, srvAccess, srvRefresh, issued, req>>
varsUpload == <<pcU, uKind, totalBytes, mediaId, chunkIdx, uCalls, procState,
                checkAfterSecs, elapsed, uError, uResult, uMedia, uPolls>>
varsFallback == <<pcF, fService, fIdx, fTried, fLastError, fOutcome>>

varsPipeline == <<varsRun, varsStore, varsReplay>>
varsNotPipeline == <<varsAuth, varsUpload, varsFallback>>
varsNotAuth == <<varsPipeline, varsUpload, varsFallback>>
varsNotUpload == <<varsPipeline, varsAuth, varsFallback>>
varsNotFallback == <<varsPipeline, varsAuth, varsUpload>>

vars == <<varsRun, varsStore, varsReplay, varsAuth, varsUpload, varsFallback>>

----------------------------------------------------------------------------
\* Bounds of the model.

\* Largest number of results the search collaborator returns.
MaxResults == 2
\* Number of replay processes started after the live run has ended.
MaxReplays == 2

----------------------------------------------------------------------------
\* Values.

Null == "null"
EmptyKey == ""
NoStamp == 0
NoPostId == 0

\* JavaScript truthiness of an optional string (undefined and "" are falsy).
Truthy(s) == s \notin {Null, EmptyKey}

StepStatuses == {"pending", "in_progress", "completed", "failed", "skipped"}
RunStatuses == {"running", "completed", "failed", "partial"}
StepNames == <<"newsSearch", "contentGeneration", "imageGeneration",
               "videoGeneration", "posting">>

\* The content the LLM collaborator returns.
Content == [postContent |-> "post text", imagePrompt |-> "image prompt",
            videoPrompt |-> "video prompt", selectedTopic |-> "topic"]

NoSearchData == [results |-> 0]
NoContentData == [postContent |-> Null, imagePrompt |-> Null,
                  videoPrompt |-> Null, selectedTopic |-> Null]
NoImageData == [prompt |-> Null, imageKey |-> Null]
NoVideoData == [prompt |-> Null, provider |-> Null, videoKey |-> Null]
NoPostData == [postId |-> NoPostId, mediaType |-> Null, postContent |-> Null]

PendingStep(d) ==
    [status |-> "pending", startedAt |-> NoStamp, completedAt |-> NoStamp,
     error |-> Null, data |-> d]

createWorkflowRun(t) ==
    [status |-> "running", startedAt |-> t, completedAt |-> NoStamp,
     error |-> Null,
     newsSearch |-> PendingStep(NoSearchData),
     contentGeneration |-> PendingStep(NoContentData),
     imageGeneration |-> PendingStep(NoImageData),
     videoGeneration |-> PendingStep(NoVideoData),
     posting |-> PendingStep(NoPostData)]

ImageKeyName == "workflows/run/image.png"
VideoKeyName == "workflows/run/video.mp4"

\* Error messages.
ErrNoNews == "No AI news found"
ErrSearch == "Tavily API error"
ErrContent == "OpenRouter API error"
ErrImage == "image generation error"
ErrVideo == "video generation error"
ErrPost == "Failed to post to X.com"
ErrStore == "R2 PutObject rejected"
ErrDownload == "R2 GetObject rejected"

----------------------------------------------------------------------------
\* The R2 workflow store (services/workflow-storage).

\* Store operations that reach the bucket without the isR2Configured test.
SaveOutcomesUnguarded == IF storeFaulty THEN {TRUE, FALSE} ELSE {TRUE}

\* Outcomes of one PutObject: it resolves (TRUE) or rejects (FALSE).  An
\* unconfigured store sends nothing, so nothing can reject.
SaveOutcomes == IF r2Configured /\ storeFaulty THEN {TRUE, FALSE} ELSE {TRUE}

\* A saveWorkflowMetadata that sends nothing.
saveWorkflowMetadataSkipped(wf, ok) == r2Meta

\* saveWorkflowMetadata: the content of metadata.json after the call.
saveWorkflowMetadata(wf, ok) ==
    IF r2Configured /\ ok THEN <<wf>> ELSE r2Meta

\* saveWorkflowImage / saveWorkflowVideo: the key returned ("" unconfigured).
savedKey(key) == IF r2Configured THEN key ELSE EmptyKey

\* A media put that sends nothing.
saveWorkflowBlobSkipped(key, ok) == r2Blobs

\* The media keys of the store after a successful media put.
saveWorkflowBlob(key, ok) ==
    IF r2Configured /\ ok THEN r2Blobs \cup {key} ELSE r2Blobs

\* Object keys are sequences of characters, the file name being one element:
\* `${WORKFLOWS_PREFIX}${runId}/${file}`.
WORKFLOWS_PREFIX == <<"workflows/">>
RunId == <<"r">>
OtherRunId == <<"r", "2">>
ObjectKey(runId, file) == WORKFLOWS_PREFIX \o runId \o <<"/", file>>

\* The objects another run left in the bucket.
OtherRunObjects ==
    {ObjectKey(OtherRunId, "metadata.json"), ObjectKey(OtherRunId, "image.png")}

\* The file name of a media key of the run.
FileOf(key) == IF key = ImageKeyName THEN "image.png" ELSE "video.mp4"

\* The keys of the objects in the bucket.
BucketKeys ==
    (IF r2Meta # <<>> THEN {ObjectKey(RunId, "metadata.json")} ELSE {})
    \cup {ObjectKey(RunId, FileOf(b)) : b \in r2Blobs}
    \cup r2Other

\* Every key a bucket of the model can hold, in the order of a listing.
KeysInOrder ==
    <<ObjectKey(RunId, "image.png"), ObjectKey(RunId, "metadata.json"),
      ObjectKey(RunId, "video.mp4"), ObjectKey(OtherRunId, "image.png"),
      ObjectKey(OtherRunId, "metadata.json")>>

StartsWith(key, prefix) ==
    Len(key) >= Len(prefix) /\ SubSeq(key, 1, Len(prefix)) = prefix

\* A prefix that stops before the "/" after the run id.
deletePrefixNoSlash(runId) == WORKFLOWS_PREFIX \o runId

\* deleteWorkflowRun, line 380: `${WORKFLOWS_PREFIX}${runId}/`.
deletePrefix(runId) == WORKFLOWS_PREFIX \o runId \o <<"/">>

\* ListObjectsV2 with Prefix: listResponse.Contents.
ListObjects(prefix) ==
    SelectSeq(KeysInOrder,
              LAMBDA k : k \in BucketKeys /\ StartsWith(k, prefix))

\* The bucket after DeleteObject of key k.
metaAfterDelete(k) ==
    IF k = ObjectKey(RunId, "metadata.json") THEN <<>> ELSE r2Meta
blobsAfterDelete(k) ==
    {b \in r2Blobs : ObjectKey(RunId, FileOf(b)) # k}
otherAfterDelete(k) == r2Other \ {k}

----------------------------------------------------------------------------
\* The live run: generatePost.  One action per stretch of code between two
\* awaits; a collaborator call and the bookkeeping after it are two actions.

RunLocalsUnchanged ==
    UNCHANGED <<newsResults, content, imagePath, videoPath, imageKey, videoKey,
                postId>>

\* Step 1, lines 105-107: mark newsSearch in_progress and save.
MarkSearchInProgress ==
    /\ pcRun = "s1_begin"
    /\ \E ok \in SaveOutcomes :
        /\ workflow' = [workflow EXCEPT !.newsSearch.status = "in_progress",
                                        !.newsSearch.startedAt = now]
        /\ r2Meta' = saveWorkflowMetadata(workflow', ok)
        /\ IF ok THEN pcRun' = "s1_call" /\ thrown' = thrown
                 ELSE pcRun' = "catch" /\ thrown' = ErrStore
    /\ now' = now + 1
    /\ RunLocalsUnchanged
    /\ UNCHANGED <<runExit, calls, r2Configured, storeFaulty, r2Other, r2Blobs,
                   posts>>
    /\ UNCHANGED varsReplay
    /\ UNCHANGED varsNotPipeline

\* Line 109: await searchAINews().
CallSearch ==
    /\ pcRun = "s1_call"
    /\ calls' = Append(calls, "searchAINews")
    /\ \/ \E n \in 0..MaxResults :
            /\ newsResults' = n
            /\ pcRun' = "s1_record"
            /\ thrown' = thrown
       \/ /\ pcRun' = "catch"
          /\ thrown' = ErrSearch
          /\ newsResults' = newsResults
    /\ UNCHANGED <<workflow, content, imagePath, videoPath, imageKey, videoKey,
                   postId, runExit>>
    /\ UNCHANGED <<varsStore, varsReplay>>
    /\ UNCHANGED varsNotPipeline

\* A search bookkeeping without the empty-result check of line 111.
RecordSearchNoEmptyCheck ==
    /\ pcRun = "s1_record"
    /\ \E ok \in SaveOutcomes :
        /\ workflow' = [workflow EXCEPT
                !.newsSearch.status = "completed",
                !.newsSearch.completedAt = now,
                !.newsSearch.data = [results |-> newsResults]]
        /\ IF ok THEN pcRun' = "s2_begin" /\ thrown' = thrown
                 ELSE pcRun' = "catch" /\ thrown' = ErrStore
        /\ r2Meta' = saveWorkflowMetadata(workflow', ok)
    /\ now' = now + 1
    /\ RunLocalsUnchanged
    /\ UNCHANGED <<runExit, calls, r2Configured, storeFaulty, r2Other, r2Blobs,
                   posts>>
    /\ UNCHANGED varsReplay
    /\ UNCHANGED varsNotPipeline

\* Lines 111-122: no results -> step failed, saved, throw; else completed.
RecordSearch ==
    /\ pcRun = "s1_record"
    /\ \E ok \in SaveOutcomes :
        /\ IF newsResults = 0
           THEN /\ workflow' = [workflow EXCEPT
                        !.newsSearch.status = "failed",
                        !.newsSearch.error = ErrNoNews,
                        !.newsSearch.completedAt = now]
                /\ pcRun' = "catch"
                /\ thrown' = IF ok THEN ErrNoNews ELSE ErrStore
           ELSE /\ workflow' = [workflow EXCEPT
                        !.newsSearch.status = "completed",
                        !.newsSearch.completedAt = now,
                        !.newsSearch.data = [results |-> newsResults]]
                /\ IF ok THEN pcRun' = "s2_begin" /\ thrown' = thrown
                         ELSE pcRun' = "catch" /\ thrown' = ErrStore
        /\ r2Meta' = saveWorkflowMetadata(workflow', ok)
    /\ now' = now + 1
    /\ RunLocalsUnchanged
    /\ UNCHANGED <<runExit, calls, r2Configured, storeFaulty, r2Other, r2Blobs,
                   posts>>
    /\ UNCHANGED varsReplay
    /\ UNCHANGED varsNotPipeline

\* Step 2, lines 126-128.
MarkContentInProgress ==
    /\ pcRun = "s2_begin"
    /\ \E ok \in SaveOutcomes :
        /\ workflow' = [workflow EXCEPT
                !.contentGeneration.status = "in_progress",
                !.contentGeneration.startedAt = now]
        /\ r2Meta' = saveWorkflowMetadata(workflow', ok)
        /\ IF ok THEN pcRun' = "s2_call" /\ thrown' = thrown
                 ELSE pcRun' = "catch" /\ thrown' = ErrStore
    /\ now' = now + 1
    /\ RunLocalsUnchanged
    /\ UNCHANGED <<runExit, calls, r2Configured, storeFaulty, r2Other, r2Blobs,
                   posts>>
    /\ UNCHANGED varsReplay
    /\ UNCHANGED varsNotPipeline

\* Line 130: await generateContent(newsResults).
CallContent ==
    /\ pcRun = "s2_call"
    /\ calls' = Append(calls, "generateContent")
    /\ \/ pcRun' = "s2_record" /\ thrown' = thrown /\ content' = Content
       \/ pcRun' = "catch" /\ thrown' = ErrContent /\ content' = content
    /\ UNCHANGED <<newsResults, imagePath, videoPath, imageKey, videoKey,
                   postId>>
    /\ UNCHANGED <<workflow, runExit>>
    /\ UNCHANGED <<varsStore, varsReplay>>
    /\ UNCHANGED varsNotPipeline

\* A content bookkeeping that goes on without completing the step.
RecordContentLeavesInProgress ==
    /\ pcRun = "s2_record"
    /\ \E ok \in SaveOutcomes :
        /\ workflow' = [workflow EXCEPT !.contentGeneration.data = Content]
        /\ r2Meta' = saveWorkflowMetadata(workflow', ok)
        /\ IF ok THEN pcRun' = "s3_begin" /\ thrown' = thrown
                 ELSE pcRun' = "catch" /\ thrown' = ErrStore
    /\ now' = now + 1
    /\ RunLocalsUnchanged
    /\ UNCHANGED <<runExit, calls, r2Configured, storeFaulty, r2Other, r2Blobs,
                   posts>>
    /\ UNCHANGED varsReplay
    /\ UNCHANGED varsNotPipeline

\* Lines 132-135.
RecordContent ==
    /\ pcRun = "s2_record"
    /\ \E ok \in SaveOutcomes :
        /\ workflow' = [workflow EXCEPT
                !.contentGeneration.status = "completed",
                !.contentGeneration.completedAt = now,
                !.contentGeneration.data = Content]
        /\ r2Meta' = saveWorkflowMetadata(workflow', ok)
        /\ IF ok THEN pcRun' = "s3_begin" /\ thrown' = thrown
                 ELSE pcRun' = "catch" /\ thrown' = ErrStore
    /\ now' = now + 1
    /\ RunLocalsUnchanged
    /\ UNCHANGED <<runExit, calls, r2Configured, storeFaulty, r2Other, r2Blobs,
                   posts>>
    /\ UNCHANGED varsReplay
    /\ UNCHANGED varsNotPipeline

\* Step 3, lines 139-142.
MarkImageInProgress ==
    /\ pcRun = "s3_begin"
    /\ \E ok \in SaveOutcomes :
        /\ workflow' = [workflow EXCEPT
                !.imageGeneration.status = "in_progress",
                !.imageGeneration.startedAt = now,
                !.imageGeneration.data =
                    [prompt |-> Content.imagePrompt, imageKey |-> Null]]
        /\ r2Meta' = saveWorkflowMetadata(workflow', ok)
        /\ IF ok THEN pcRun' = "s3_call" /\ thrown' = thrown
                 ELSE pcRun' = "catch" /\ thrown' = ErrStore
    /\ now' = now + 1
    /\ RunLocalsUnchanged
    /\ UNCHANGED <<runExit, calls, r2Configured, storeFaulty, r2Other, r2Blobs,
                   posts>>
    /\ UNCHANGED varsReplay
    /\ UNCHANGED varsNotPipeline

\* Line 144: imagePath = await generateImage(content.imagePrompt).
CallImage ==
    /\ pcRun = "s3_call"
    /\ calls' = Append(calls, "generateImage")
    /\ \/ pcRun' = "s3_store" /\ imagePath' = TRUE /\ thrown' = thrown
       \/ pcRun' = "catch" /\ imagePath' = imagePath /\ thrown' = ErrImage
    /\ UNCHANGED <<workflow, newsResults, content, videoPath, imageKey, videoKey,
                   postId, runExit>>
    /\ UNCHANGED <<varsStore, varsReplay>>
    /\ UNCHANGED varsNotPipeline

\* Line 147: imageKey = await saveWorkflowImage(runId, imagePath).
StoreImage ==
    /\ pcRun = "s3_store"
    /\ \E ok \in SaveOutcomes :
        /\ r2Blobs' = saveWorkflowBlob(ImageKeyName, ok)
        /\ IF ok THEN /\ pcRun' = "s3_record"
                      /\ imageKey' = savedKey(ImageKeyName)
                      /\ thrown' = thrown
                 ELSE /\ pcRun' = "catch"
                      /\ imageKey' = imageKey
                      /\ thrown' = ErrStore
    /\ UNCHANGED <<workflow, newsResults, content, imagePath, videoPath, videoKey,
                   postId, runExit, calls>>
    /\ UNCHANGED <<r2Configured, storeFaulty, r2Other, r2Meta, posts, now>>
    /\ UNCHANGED varsReplay
    /\ UNCHANGED varsNotPipeline

\* Lines 149-155.
RecordImage ==
    /\ pcRun = "s3_record"
    /\ \E ok \in SaveOutcomes :
        /\ workflow' = [workflow EXCEPT
                !.imageGeneration.status = "completed",
                !.imageGeneration.completedAt = now,
                !.imageGeneration.data =
                    [prompt |-> Content.imagePrompt, imageKey |-> imageKey]]
        /\ r2Meta' = saveWorkflowMetadata(workflow', ok)
        /\ IF ok THEN pcRun' = "s4_begin" /\ thrown' = thrown
                 ELSE pcRun' = "catch" /\ thrown' = ErrStore
    /\ now' = now + 1
    /\ RunLocalsUnchanged
    /\ UNCHANGED <<runExit, calls, r2Configured, storeFaulty, r2Other, r2Blobs,
                   posts>>
    /\ UNCHANGED varsReplay
    /\ UNCHANGED varsNotPipeline

\* Step 4, lines 161-164 (outside the inner try).
MarkVideoInProgress ==
    /\ pcRun = "s4_begin"
    /\ \E ok \in SaveOutcomes :
        /\ workflow' = [workflow EXCEPT
                !.videoGeneration.status = "in_progress",
                !.videoGeneration.startedAt = now,
                !.videoGeneration.data =
                    [prompt |-> Content.videoPrompt, provider |-> "veo",
                     videoKey |-> Null]]
        /\ r2Meta' = saveWorkflowMetadata(workflow', ok)
        /\ IF ok THEN pcRun' = "s4_call" /\ thrown' = thrown
                 ELSE pcRun' = "catch" /\ thrown' = ErrStore
    /\ now' = now + 1
    /\ RunLocalsUnchanged
    /\ UNCHANGED <<runExit, calls, r2Configured, storeFaulty, r2Other, r2Blobs,
                   posts>>
    /\ UNCHANGED varsReplay
    /\ UNCHANGED varsNotPipeline

\* Lines 167-168 (inner try): videoResult = await generateVideo(...).
CallVideo ==
    /\ pcRun = "s4_call"
    /\ calls' = Append(calls, "generateVideo")
    /\ \/ pcRun' = "s4_store" /\ videoPath' = TRUE /\ thrown' = thrown
       \/ pcRun' = "s4_catch" /\ videoPath' = videoPath /\ thrown' = ErrVideo
    /\ UNCHANGED <<workflow, newsResults, content, imagePath, imageKey, videoKey,
                   postId, runExit>>
    /\ UNCHANGED <<varsStore, varsReplay>>
    /\ UNCHANGED varsNotPipeline

\* Line 172 (inner try): videoKey = await saveWorkflowVideo(runId, videoPath).
StoreVideo ==
    /\ pcRun = "s4_store"
    /\ \E ok \in SaveOutcomes :
        /\ r2Blobs' = saveWorkflowBlob(VideoKeyName, ok)
        /\ IF ok THEN /\ pcRun' = "s4_record"
                      /\ videoKey' = savedKey(VideoKeyName)
                      /\ thrown' = thrown
                 ELSE /\ pcRun' = "s4_catch"
                      /\ videoKey' = videoKey
                      /\ thrown' = ErrStore
    /\ UNCHANGED <<workflow, newsResults, content, imagePath, videoPath, imageKey,
                   postId, runExit, calls>>
    /\ UNCHANGED <<r2Configured, storeFaulty, r2Other, r2Meta, posts, now>>
    /\ UNCHANGED varsReplay
    /\ UNCHANGED varsNotPipeline

\* Lines 174-181 (inner try).
RecordVideo ==
    /\ pcRun = "s4_record"
    /\ \E ok \in SaveOutcomes :
        /\ workflow' = [workflow EXCEPT
                !.videoGeneration.status = "completed",
                !.videoGeneration.completedAt = now,
                !.videoGeneration.data =
                    [prompt |-> Content.videoPrompt, provider |-> "veo",
                     videoKey |-> videoKey]]
        /\ r2Meta' = saveWorkflowMetadata(workflow', ok)
        /\ IF ok THEN pcRun' = "s5_begin" /\ thrown' = thrown
                 ELSE pcRun' = "s4_catch" /\ thrown' = ErrStore
    /\ now' = now + 1
    /\ RunLocalsUnchanged
    /\ UNCHANGED <<runExit, calls, r2Configured, storeFaulty, r2Other, r2Blobs,
                   posts>>
    /\ UNCHANGED varsReplay
    /\ UNCHANGED varsNotPipeline

\* A video catch block that rethrows to the outer catch.
VideoCatchRethrows ==
    /\ pcRun = "s4_catch"
    /\ \E ok \in SaveOutcomes :
        /\ workflow' = [workflow EXCEPT
                !.videoGeneration.status = "failed",
                !.videoGeneration.completedAt = now,
                !.videoGeneration.error = thrown]
        /\ r2Meta' = saveWorkflowMetadata(workflow', ok)
        /\ pcRun' = "catch"
        /\ thrown' = IF ok THEN thrown ELSE ErrStore
    /\ now' = now + 1
    /\ RunLocalsUnchanged
    /\ UNCHANGED <<runExit, calls, r2Configured, storeFaulty, r2Other, r2Blobs,
                   posts>>
    /\ UNCHANGED varsReplay
    /\ UNCHANGED varsNotPipeline

\* A video catch block that calls generateVideo again.
VideoCatchRetries ==
    /\ pcRun = "s4_catch"
    /\ \E ok \in SaveOutcomes :
        /\ workflow' = [workflow EXCEPT
                !.videoGeneration.status = "failed",
                !.videoGeneration.completedAt = now,
                !.videoGeneration.error = thrown]
        /\ r2Meta' = saveWorkflowMetadata(workflow', ok)
        /\ IF ok THEN pcRun' = "s4_call" /\ thrown' = thrown
                 ELSE pcRun' = "catch" /\ thrown' = ErrStore
    /\ now' = now + 1
    /\ RunLocalsUnchanged
    /\ UNCHANGED <<runExit, calls, r2Configured, storeFaulty, r2Other, r2Blobs,
                   posts>>
    /\ UNCHANGED varsReplay
    /\ UNCHANGED varsNotPipeline

\* A video catch block that puts the step back to pending.
VideoCatchResetsStep ==
    /\ pcRun = "s4_catch"
    /\ \E ok \in SaveOutcomes :
        /\ workflow' = [workflow EXCEPT
                !.videoGeneration.status = "pending",
                !.videoGeneration.completedAt = now,
                !.videoGeneration.error = thrown]
        /\ r2Meta' = saveWorkflowMetadata(workflow', ok)
        /\ IF ok THEN pcRun' = "s5_begin" /\ thrown' = thrown
                 ELSE pcRun' = "catch" /\ thrown' = ErrStore
    /\ now' = now + 1
    /\ RunLocalsUnchanged
    /\ UNCHANGED <<runExit, calls, r2Configured, storeFaulty, r2Other, r2Blobs,
                   posts>>
    /\ UNCHANGED varsReplay
    /\ UNCHANGED varsNotPipeline

\* Lines 182-190: catch (videoError): the step fails, the run goes on.
VideoCatch ==
    /\ pcRun = "s4_catch"
    /\ \E ok \in SaveOutcomes :
        /\ workflow' = [workflow EXCEPT
                !.videoGeneration.status = "failed",
                !.videoGeneration.completedAt = now,
                !.videoGeneration.error = thrown]
        /\ r2Meta' = saveWorkflowMetadata(workflow', ok)
        /\ IF ok THEN pcRun' = "s5_begin" /\ thrown' = thrown
                 ELSE pcRun' = "catch" /\ thrown' = ErrStore
    /\ now' = now + 1
    /\ RunLocalsUnchanged
    /\ UNCHANGED <<runExit, calls, r2Configured, storeFaulty, r2Other, r2Blobs,
                   posts>>
    /\ UNCHANGED varsReplay
    /\ UNCHANGED varsNotPipeline

\* A mediaType that is always "image".
mediaTypeAlwaysImage(vp) == "image"

\* Line 194: const mediaType = videoPath ? "video" : "image".
mediaTypeOf(vp) == IF vp THEN "video" ELSE "image"

\* Step 5, lines 194-201.
MarkPostingInProgress ==
    /\ pcRun = "s5_begin"
    /\ \E ok \in SaveOutcomes :
        /\ workflow' = [workflow EXCEPT
                !.posting.status = "in_progress",
                !.posting.startedAt = now,
                !.posting.data =
                    [postId |-> NoPostId, mediaType |-> mediaTypeOf(videoPath),
                     postContent |-> Content.postContent]]
        /\ r2Meta' = saveWorkflowMetadata(workflow', ok)
        /\ IF ok THEN pcRun' = "s5_call" /\ thrown' = thrown
                 ELSE pcRun' = "catch" /\ thrown' = ErrStore
    /\ now' = now + 1
    /\ RunLocalsUnchanged
    /\ UNCHANGED <<runExit, calls, r2Configured, storeFaulty, r2Other, r2Blobs,
                   posts>>
    /\ UNCHANGED varsReplay
    /\ UNCHANGED varsNotPipeline

\* The platform after createVideoPost / createImagePost created a post.
createPost(kind, by) ==
    Append(posts, [id |-> Len(posts) + 1, mediaType |-> kind, by |-> by])

\* Lines 203-210: createVideoPost if videoPath, else createImagePost.
CallPost ==
    /\ pcRun = "s5_call"
    /\ calls' = Append(calls, IF videoPath THEN "createVideoPost"
                                           ELSE "createImagePost")
    /\ \/ /\ posts' = createPost(IF videoPath THEN "video" ELSE "image", "run")
          /\ postId' = Len(posts) + 1
          /\ pcRun' = "s5_record"
          /\ thrown' = thrown
       \/ /\ pcRun' = "catch"
          /\ thrown' = ErrPost
          /\ UNCHANGED <<posts, postId>>
    /\ UNCHANGED <<workflow, newsResults, content, imagePath, videoPath, imageKey,
                   videoKey, runExit>>
    /\ UNCHANGED <<r2Configured, storeFaulty, r2Other, r2Meta, r2Blobs, now>>
    /\ UNCHANGED varsReplay
    /\ UNCHANGED varsNotPipeline

\* Lines 212-235: the posting step and the run are completed, saved; the
\* process then exits 0 (lines 262-266).
RecordPost ==
    /\ pcRun = "s5_record"
    /\ \E ok \in SaveOutcomes :
        /\ workflow' = [workflow EXCEPT
                !.posting.status = "completed",
                !.posting.completedAt = now,
                !.posting.data =
                    [postId |-> postId, mediaType |-> mediaTypeOf(videoPath),
                     postContent |-> Content.postContent],
                !.status = "completed",
                !.completedAt = now]
        /\ r2Meta' = saveWorkflowMetadata(workflow', ok)
        /\ IF ok THEN pcRun' = "done" /\ thrown' = thrown /\ runExit' = 0
                 ELSE pcRun' = "catch" /\ thrown' = ErrStore
                      /\ runExit' = runExit
    /\ now' = now + 1
    /\ RunLocalsUnchanged
    /\ UNCHANGED <<calls, r2Configured, storeFaulty, r2Other, r2Blobs, posts>>
    /\ UNCHANGED varsReplay
    /\ UNCHANGED varsNotPipeline

\* Lines 237-251: catch (error): the run is failed, saved, the error is
\* rethrown and the process exits 1 (lines 267-270).  A save that rejects
\* here replaces the error; the exit code is the same.
Catch ==
    /\ pcRun = "catch"
    /\ \E ok \in SaveOutcomes :
        /\ workflow' = [workflow EXCEPT
                !.status = "failed",
                !.completedAt = now,
                !.error = thrown]
        /\ r2Meta' = saveWorkflowMetadata(workflow', ok)
        /\ thrown' = IF ok THEN thrown ELSE ErrStore
    /\ pcRun' = "failed"
    /\ runExit' = 1
    /\ now' = now + 1
    /\ RunLocalsUnchanged
    /\ UNCHANGED <<calls, r2Configured, storeFaulty, r2Other, r2Blobs, posts>>
    /\ UNCHANGED varsReplay
    /\ UNCHANGED varsNotPipeline

RunEnded == pcRun \in {"done", "failed", "crashed"}

\* The process is stopped from outside at any await.
Crash ==
    /\ ~RunEnded
    /\ pcRun' = "crashed"
    /\ runExit' = 137
    /\ UNCHANGED <<workflow, newsResults, content, imagePath, videoPath, imageKey,
                   videoKey, postId, thrown, calls>>
    /\ UNCHANGED <<varsStore, varsReplay>>
    /\ UNCHANGED varsNotPipeline

NextRun ==
    \/ MarkSearchInProgress \/ CallSearch \/ RecordSearch
    \/ MarkContentInProgress \/ CallContent \/ RecordContent
    \/ MarkImageInProgress \/ CallImage \/ StoreImage \/ RecordImage
    \/ MarkVideoInProgress \/ CallVideo \/ StoreVideo \/ RecordVideo
    \/ VideoCatch
    \/ MarkPostingInProgress \/ CallPost \/ RecordPost
    \/ Catch \/ Crash

----------------------------------------------------------------------------
\* The replay tool: main() with the commands show, post and delete on the
\* run id of the live run; showRun, repostRun and deleteRun.

ReplayCommands == {"show", "post", "delete"}

ErrNotFound == "Workflow run not found"
ErrAlreadyPosted == "This workflow was already posted successfully"
ErrNoContent == "No generated content found in this workflow"
ErrNoMedia == "No media (image or video) found in this workflow"
ErrNoMediaAvailable == "No media available for posting"
ErrNotConfigured == "Cloudflare R2 is not configured"

\* A guard that looks at the run's status instead of the posting step's.
alreadyPostedByRunStatus(wf) ==
    wf.status = "failed" /\ wf.posting.data.postId # NoPostId

\* Line 118: the idempotency guard of repostRun.
alreadyPosted(wf) ==
    wf.posting.status = "completed" /\ wf.posting.data.postId # NoPostId

\* An image check that always passes.
hasImageAlways(wf) == TRUE

\* Lines 133-134.
hasImage(wf) == Truthy(wf.imageGeneration.data.imageKey)
hasVideo(wf) == Truthy(wf.videoGeneration.data.videoKey)

ReplayExits(code, err) ==
    /\ pcReplay' = "idle"
    /\ replayExit' = code
    /\ rError' = err

\* A replay process starts once the live process has ended.  main(), lines
\* 217-233: an unconfigured store ends it with exit code 1.
ReplayStart ==
    /\ RunEnded
    /\ pcReplay = "idle"
    /\ replays < MaxReplays
    /\ replays' = replays + 1
    /\ rworkflow' = <<>>
    /\ rImagePath' = FALSE
    /\ rVideoPath' = FALSE
    /\ rPostId' = NoPostId
    /\ rMediaType' = Null
    /\ rcalls' = <<>>
    /\ rToDelete' = <<>>
    /\ \E cmd \in ReplayCommands :
        /\ rCommand' = cmd
        /\ IF r2Configured
           THEN /\ pcReplay' = CASE cmd = "post" -> "load"
                                 [] cmd = "show" -> "show"
                                 [] cmd = "delete" -> "delete_list"
                /\ replayExit' = -1
                /\ rError' = Null
           ELSE ReplayExits(1, ErrNotConfigured)
    /\ UNCHANGED <<varsRun, varsStore>>
    /\ UNCHANGED varsNotPipeline

\* repostRun, lines 110-140: load the record and check the preconditions.
ReplayLoad ==
    /\ pcReplay = "load"
    /\ rcalls' = Append(rcalls, "getWorkflowMetadata")
    /\ IF r2Meta = <<>>
       THEN ReplayExits(1, ErrNotFound) /\ rworkflow' = rworkflow
       ELSE LET wf == r2Meta[1] IN
            /\ rworkflow' = <<wf>>
            /\ IF alreadyPosted(wf)
               THEN ReplayExits(1, ErrAlreadyPosted)
               ELSE IF ~Truthy(wf.contentGeneration.data.postContent)
               THEN ReplayExits(1, ErrNoContent)
               ELSE IF ~hasImage(wf) /\ ~hasVideo(wf)
               THEN ReplayExits(1, ErrNoMedia)
               ELSE pcReplay' = "download" /\ UNCHANGED <<replayExit, rError>>
    /\ UNCHANGED <<rImagePath, rVideoPath, rPostId, rMediaType, replays, rCommand, rToDelete>>
    /\ UNCHANGED <<varsRun, varsStore>>
    /\ UNCHANGED varsNotPipeline

\* Lines 148-164: download the video and the image whose keys are recorded;
\* an object that is not in the store gives a null path.
ReplayDownload ==
    /\ pcReplay = "download"
    /\ LET wf == rworkflow[1] IN
        /\ rVideoPath' = (hasVideo(wf) /\ VideoKeyName \in r2Blobs)
        /\ rImagePath' = (hasImage(wf) /\ ImageKeyName \in r2Blobs)
        /\ rcalls' = rcalls
                \o (IF hasVideo(wf) THEN <<"downloadWorkflowVideo">> ELSE <<>>)
                \o (IF hasImage(wf) THEN <<"downloadWorkflowImage">> ELSE <<>>)
    /\ pcReplay' = "post"
    /\ UNCHANGED <<rworkflow, rPostId, rMediaType, replayExit, rError, replays, rCommand, rToDelete>>
    /\ UNCHANGED <<varsRun, varsStore>>
    /\ UNCHANGED varsNotPipeline

\* Lines 169-180: createVideoPost if videoPath, else createImagePost if
\* imagePath, else throw.  A throw leaves through finally to main's catch.
ReplayPost ==
    /\ pcReplay = "post"
    /\ IF rVideoPath \/ rImagePath
       THEN LET kind == IF rVideoPath THEN "video" ELSE "image" IN
            /\ rcalls' = Append(rcalls, IF rVideoPath THEN "createVideoPost"
                                                      ELSE "createImagePost")
            /\ \/ /\ posts' = createPost(kind, "replay")
                  /\ rPostId' = Len(posts) + 1
                  /\ rMediaType' = kind
                  /\ pcReplay' = "record"
                  /\ UNCHANGED <<replayExit, rError>>
               \/ /\ ReplayExits(1, ErrPost)
                  /\ UNCHANGED <<posts, rPostId, rMediaType>>
       ELSE /\ ReplayExits(1, ErrNoMediaAvailable)
            /\ UNCHANGED <<posts, rPostId, rMediaType, rcalls>>
    /\ UNCHANGED <<rworkflow, rImagePath, rVideoPath, replays, rCommand, rToDelete>>
    /\ UNCHANGED <<r2Configured, storeFaulty, r2Other, r2Meta, r2Blobs, now>>
    /\ UNCHANGED varsRun
    /\ UNCHANGED varsNotPipeline

\* A record update that writes a new record holding the publish step only.
ReplayRecordRebuildsRecord ==
    /\ pcReplay = "record"
    /\ \E ok \in SaveOutcomes :
        /\ rworkflow' = <<[createWorkflowRun(now) EXCEPT
                !.posting.status = "completed",
                !.posting.completedAt = now,
                !.posting.data =
                    [postId |-> rPostId, mediaType |-> rMediaType,
                     postContent |->
                        rworkflow[1].contentGeneration.data.postContent],
                !.status = "completed",
                !.completedAt = now]>>
        /\ r2Meta' = saveWorkflowMetadata(rworkflow'[1], ok)
        /\ IF ok THEN ReplayExits(0, Null) ELSE ReplayExits(1, ErrStore)
    /\ now' = now + 1
    /\ rcalls' = Append(rcalls, "saveWorkflowMetadata")
    /\ UNCHANGED <<rImagePath, rVideoPath, rPostId, rMediaType, replays,
                   rCommand, rToDelete>>
    /\ UNCHANGED <<r2Configured, storeFaulty, r2Other, r2Blobs, posts>>
    /\ UNCHANGED varsRun
    /\ UNCHANGED varsNotPipeline

\* Lines 182-200: the record is completed and saved; exit 0.
ReplayRecord ==
    /\ pcReplay = "record"
    /\ \E ok \in SaveOutcomes :
        /\ rworkflow' = <<[rworkflow[1] EXCEPT
                !.posting.status = "completed",
                !.posting.completedAt = now,
                !.posting.data =
                    [postId |-> rPostId, mediaType |-> rMediaType,
                     postContent |->
                        rworkflow[1].contentGeneration.data.postContent],
                !.status = "completed",
                !.completedAt = now]>>
        /\ r2Meta' = saveWorkflowMetadata(rworkflow'[1], ok)
        /\ IF ok THEN ReplayExits(0, Null) ELSE ReplayExits(1, ErrStore)
    /\ now' = now + 1
    /\ rcalls' = Append(rcalls, "saveWorkflowMetadata")
    /\ UNCHANGED <<rImagePath, rVideoPath, rPostId, rMediaType, replays, rCommand, rToDelete>>
    /\ UNCHANGED <<r2Configured, storeFaulty, r2Other, r2Blobs, posts>>
    /\ UNCHANGED varsRun
    /\ UNCHANGED varsNotPipeline

\* showRun, lines 92-105: the record is printed, or not found.
ReplayShow ==
    /\ pcReplay = "show"
    /\ rcalls' = Append(rcalls, "getWorkflowMetadata")
    /\ IF r2Meta = <<>>
       THEN ReplayExits(1, ErrNotFound) /\ rworkflow' = rworkflow
       ELSE ReplayExits(0, Null) /\ rworkflow' = r2Meta
    /\ UNCHANGED <<rImagePath, rVideoPath, rPostId, rMediaType, replays, rCommand,
                   rToDelete>>
    /\ UNCHANGED <<varsRun, varsStore>>
    /\ UNCHANGED varsNotPipeline

\* deleteWorkflowRun, lines 380-393: the objects under the prefix are
\* listed; with none listed the function returns and the process exits 0.
\* A rejected ListObjectsV2 ends the process with exit code 1.
ReplayDeleteList ==
    /\ pcReplay = "delete_list"
    /\ rcalls' = Append(rcalls, "ListObjectsV2")
    /\ \E ok \in SaveOutcomes :
        LET Contents == ListObjects(deletePrefix(RunId)) IN
        IF ~ok
        THEN ReplayExits(1, ErrStore) /\ rToDelete' = rToDelete
        ELSE IF Len(Contents) = 0
        THEN ReplayExits(0, Null) /\ rToDelete' = rToDelete
        ELSE /\ rToDelete' = Contents
             /\ pcReplay' = "delete_object"
             /\ UNCHANGED <<replayExit, rError>>
    /\ UNCHANGED <<rworkflow, rImagePath, rVideoPath, rPostId, rMediaType,
                   replays, rCommand>>
    /\ UNCHANGED <<varsRun, varsStore>>
    /\ UNCHANGED varsNotPipeline

\* Lines 396-408: one DeleteObject of the loop; after the last one the
\* function returns and the process exits 0.  A rejected DeleteObject ends
\* the process with exit code 1.
ReplayDeleteObject ==
    /\ pcReplay = "delete_object"
    /\ rcalls' = Append(rcalls, "DeleteObject")
    /\ \E ok \in SaveOutcomes :
        IF ok
        THEN /\ r2Meta' = metaAfterDelete(Head(rToDelete))
             /\ r2Blobs' = blobsAfterDelete(Head(rToDelete))
             /\ r2Other' = otherAfterDelete(Head(rToDelete))
             /\ rToDelete' = Tail(rToDelete)
             /\ IF Len(rToDelete) = 1
                THEN ReplayExits(0, Null)
                ELSE UNCHANGED <<pcReplay, replayExit, rError>>
        ELSE /\ ReplayExits(1, ErrStore)
             /\ UNCHANGED <<r2Meta, r2Blobs, r2Other, rToDelete>>
    /\ UNCHANGED <<rworkflow, rImagePath, rVideoPath, rPostId, rMediaType,
                   replays, rCommand>>
    /\ UNCHANGED <<r2Configured, storeFaulty, posts, now>>
    /\ UNCHANGED varsRun
    /\ UNCHANGED varsNotPipeline

NextReplay ==
    \/ ReplayStart \/ ReplayLoad \/ ReplayDownload \/ ReplayPost
    \/ ReplayRecord \/ ReplayShow \/ ReplayDeleteList \/ ReplayDeleteObject

----------------------------------------------------------------------------
\* X API credentials: getAccessToken, refreshAccessToken and xApiRequest over
\* the module-level tokenStore, with getStoredTokens / saveTokens over
\* Cloudflare KV.  The calls of one process interleave at their awaits.

\* Number of xApiRequest calls that may overlap.
NumReq == 2
\* Token pairs the platform issues at most.
MaxIssued == 4

Reqs == 1..NumReq

\* X_API_ACCESS_TOKEN and X_API_REFRESH_TOKEN of the environment, and the
\* refresh token an earlier process left in KV.
EnvAccessToken == 1
EnvRefreshToken == 1
PriorRefreshToken == 2

ErrFetch == "fetch failed"
ErrRefresh == "Failed to refresh token"
ErrKvSave == "Failed to save token to Cloudflare KV"

ReqIdle ==
    [pc |-> "idle", retry |-> TRUE, token |-> 0, sent |-> 0,
     statuses |-> <<>>, refreshes |-> 0, rtSent |-> 0, rtToSave |-> 0, outcome |-> Null,
     error |-> Null]

\* Response.ok
ResponseOk(status) == status >= 200 /\ status <= 299

\* What the platform answers to a request carrying access token t.
PlatformStatuses(t) ==
    IF srvAccess # 0 /\ t = srvAccess THEN {200, 403} ELSE {401}

\* A recursive call that may refresh again.
retryAfterRefreshAgain == TRUE

\* Line 367: the retry argument of the recursive call.
retryAfterRefresh == FALSE

\* A call of xApiRequest(url, options) begins (retry = true).
ReqStart(r) ==
    /\ req[r].pc = "idle"
    /\ req' = [req EXCEPT ![r].pc = "getTok"]
    /\ UNCHANGED <<tokenStore, kv, srvAccess, srvRefresh, issued>>
    /\ UNCHANGED varsNotAuth

\* getAccessToken, lines 284-289, with tokenStore set: the request leaves
\* with tokenStore.accessToken (lines 353-361).
GetAccessToken(r) ==
    /\ req[r].pc = "getTok"
    /\ IF tokenStore # <<>>
       THEN req' = [req EXCEPT ![r].pc = "fetch", ![r].sent = @ + 1,
                               ![r].token = tokenStore[1].accessToken]
       ELSE req' = [req EXCEPT ![r].pc = "loading"]
    /\ UNCHANGED <<tokenStore, kv, srvAccess, srvRefresh, issued>>
    /\ UNCHANGED varsNotAuth

\* getStoredTokens (token-storage.ts 43-85) resolves and line 286 assigns
\* tokenStore.  A stored, non-empty value that could be read is used; in
\* every other case the environment's refresh token is saved and used.
LoadTokens(r) ==
    /\ req[r].pc = "loading"
    /\ \E readOk \in BOOLEAN, putOk \in BOOLEAN :
        IF readOk /\ kv # 0
        THEN /\ putOk
             /\ tokenStore' = <<[accessToken |-> EnvAccessToken,
                                 refreshToken |-> kv]>>
             /\ kv' = kv
             /\ req' = [req EXCEPT ![r].pc = "fetch", ![r].sent = @ + 1,
                                   ![r].token = EnvAccessToken]
        ELSE IF putOk
        THEN /\ kv' = EnvRefreshToken
             /\ tokenStore' = <<[accessToken |-> EnvAccessToken,
                                 refreshToken |-> EnvRefreshToken]>>
             /\ req' = [req EXCEPT ![r].pc = "fetch", ![r].sent = @ + 1,
                                   ![r].token = EnvAccessToken]
        ELSE /\ UNCHANGED <<kv, tokenStore>>
             /\ req' = [req EXCEPT ![r].pc = "done",
                                   ![r].outcome = "threw",
                                   ![r].error = ErrKvSave]
    /\ UNCHANGED <<srvAccess, srvRefresh, issued>>
    /\ UNCHANGED varsNotAuth

\* Lines 358-370: the response arrives.  A 401 with retry set goes to
\* refreshAccessToken; every other response is returned, and the caller
\* throws unless response.ok (e.g. lines 395-399).
Fetch(r) ==
    /\ req[r].pc = "fetch"
    /\ \/ \E st \in PlatformStatuses(req[r].token) :
            req' = [req EXCEPT
                ![r].statuses = Append(@, st),
                ![r].pc = IF st = 401 /\ req[r].retry THEN "refresh"
                                                      ELSE "done",
                ![r].outcome = IF st = 401 /\ req[r].retry THEN @
                               ELSE IF ResponseOk(st) THEN "ok"
                               ELSE "failed"]
       \/ req' = [req EXCEPT ![r].pc = "done", ![r].outcome = "threw",
                             ![r].error = ErrFetch]
    /\ UNCHANGED <<tokenStore, kv, srvAccess, srvRefresh, issued>>
    /\ UNCHANGED varsNotAuth

\* refreshAccessToken, lines 294-318: the exchange leaves with
\* tokenStore.refreshToken.
RefreshSend(r) ==
    /\ req[r].pc = "refresh"
    /\ req' = [req EXCEPT ![r].pc = "refresh_wait",
                          ![r].refreshes = @ + 1,
                          ![r].rtSent = tokenStore[1].refreshToken]
    /\ UNCHANGED <<tokenStore, kv, srvAccess, srvRefresh, issued>>
    /\ UNCHANGED varsNotAuth

\* Lines 309-339: the exchange answers, or its fetch rejects (the fetch of
\* line 309 is not wrapped).  The platform accepts its current refresh
\* token only, issues a new access token and (rotate) a new refresh
\* token; tokenStore is updated and saveTokens is called with its tokens.
RefreshRecv(r) ==
    /\ req[r].pc = "refresh_wait"
    /\ \/ /\ req[r].rtSent = srvRefresh
          /\ issued < MaxIssued
          /\ \E rotate \in BOOLEAN :
              LET id == issued + 1
                  rt == IF rotate THEN id ELSE tokenStore[1].refreshToken
              IN  /\ issued' = id
                  /\ srvAccess' = id
                  /\ srvRefresh' = IF rotate THEN id ELSE srvRefresh
                  /\ tokenStore' = <<[accessToken |-> id, refreshToken |-> rt]>>
                  /\ req' = [req EXCEPT ![r].pc = "saving",
                                        ![r].rtToSave = rt]
       \/ /\ \E err \in {ErrRefresh, ErrFetch} :
                req' = [req EXCEPT ![r].pc = "done", ![r].outcome = "threw",
                                   ![r].error = err]
          /\ UNCHANGED <<tokenStore, srvAccess, srvRefresh, issued>>
    /\ UNCHANGED kv
    /\ UNCHANGED varsNotAuth

\* A re-issue that does not wait for the outcome of saveTokens.
SaveTokensNotAwaited(r) ==
    /\ req[r].pc = "saving"
    /\ \E saved \in BOOLEAN :
          kv' = IF saved THEN req[r].rtToSave ELSE kv
    /\ req' = [req EXCEPT ![r].pc = "getTok", ![r].retry = retryAfterRefresh]
    /\ UNCHANGED <<tokenStore, srvAccess, srvRefresh, issued>>
    /\ UNCHANGED varsNotAuth

\* Line 339 and 367: saveTokens resolves and the request is issued again
\* through xApiRequest(url, options, false); or saveTokens rejects.
SaveTokens(r) ==
    /\ req[r].pc = "saving"
    /\ \/ /\ kv' = req[r].rtToSave
          /\ req' = [req EXCEPT ![r].pc = "getTok",
                                ![r].retry = retryAfterRefresh]
       \/ /\ kv' = kv
          /\ req' = [req EXCEPT ![r].pc = "done", ![r].outcome = "threw",
                                ![r].error = ErrKvSave]
    /\ UNCHANGED <<tokenStore, srvAccess, srvRefresh, issued>>
    /\ UNCHANGED varsNotAuth

\* The platform's access token expires.
Expire ==
    /\ srvAccess # 0
    /\ srvAccess' = 0
    /\ UNCHANGED <<tokenStore, kv, srvRefresh, issued, req>>
    /\ UNCHANGED varsNotAuth

NextAuth ==
    \/ \E r \in Reqs : ReqStart(r)
    \/ \E r \in Reqs : GetAccessToken(r)
    \/ \E r \in Reqs : LoadTokens(r)
    \/ \E r \in Reqs : Fetch(r)
    \/ \E r \in Reqs : RefreshSend(r)
    \/ \E r \in Reqs : RefreshRecv(r)
    \/ \E r \in Reqs : SaveTokens(r)
    \/ Expire

\* The calls of the pipeline: each xApiRequest is awaited before the next
\* one begins (part_008:383, 438, 459, 488, 607).
ReqStartAwaited(r) ==
    /\ \A q \in Reqs \ {r} : req[q].pc \in {"idle", "done"}
    /\ ReqStart(r)

NextAuthSeq ==
    \/ \E r \in Reqs : ReqStartAwaited(r)
    \/ \E r \in Reqs : GetAccessToken(r)
    \/ \E r \in Reqs : LoadTokens(r)
    \/ \E r \in Reqs : Fetch(r)
    \/ \E r \in Reqs : RefreshSend(r)
    \/ \E r \in Reqs : RefreshRecv(r)
    \/ \E r \in Reqs : SaveTokens(r)
    \/ Expire

IdleAuth ==
    /\ tokenStore = <<>>
    /\ kv = 0
    /\ srvAccess = 0
    /\ srvRefresh = 0
    /\ issued = 0
    /\ req = [r \in Reqs |-> ReqIdle]

\* A first process (KV empty, the environment's tokens are the platform's)
\* or a later one (KV holds the rotated refresh token; the environment's
\* access token is stale).  The platform's access token may have expired.
InitAuth ==
    /\ tokenStore = <<>>
    /\ req = [r \in Reqs |-> ReqIdle]
    /\ \E prior \in BOOLEAN :
        /\ kv = IF prior THEN PriorRefreshToken ELSE 0
        /\ srvRefresh = IF prior THEN PriorRefreshToken ELSE EnvRefreshToken
        /\ issued = IF prior THEN 2 ELSE 1
        /\ srvAccess \in IF prior THEN {0, 2} ELSE {0, EnvAccessToken}

----------------------------------------------------------------------------
\* Chunked media upload and post: createVideoPost / createImagePost over
\* uploadMediaV2, waitForMediaProcessing and postTweet.  Each platform call
\* is one xApiRequest whose response is ok or not.

\* Largest number of whole chunks of the payloads tried.
MaxChunks == 3

CHUNK_SIZE == 1048576
MAX_PROCESSING_WAIT_MS == 600000
\* check_after_secs || 5
DefaultCheckAfterSecs == 5
\* setTimeout(resolve, 5000) when finalize carries no processing_info
SettleDelayMs == 5000

\* fileBuffer.length: around every chunk boundary, empty, and a 5 MB asset.
PayloadSizes ==
    {0, 1, 5000000} \cup
    {k * CHUNK_SIZE + d : k \in 1..MaxChunks, d \in {-1, 0, 1}}

\* A state the code has no case for: `state` is declared a string (lines
\* 246 and 255).
OtherState == "expired"

\* processing_info of a response: <<>> (absent) or <<[state, check_after_secs]>>.
ProcStates == {"pending", "in_progress", "succeeded", "failed", OtherState}
CheckAfterChoices == {0, 300}
ProcessingInfos ==
    {<<>>} \cup
    {<<[state |-> st, check_after_secs |-> c]>> :
        st \in ProcStates, c \in CheckAfterChoices}

ErrReadFile == "ENOENT"
ErrInit == "Failed to initialize media upload"
ErrNoMediaId == "No media_id returned from INIT"
ErrAppend == "Failed to append media chunk"
ErrFinalize == "Failed to finalize media upload"
ErrStatus == "Failed to check media status"
ErrTimeout == "Media processing timeout exceeded (10 minutes)"
ErrProcessingFailed == "Media processing failed"
ErrTweet == "Failed to post tweet"
ErrPostPrefix == "Failed to post to X.com: "

\* The catch of createVideoPost / createImagePost.
wrapError(msg) == <<ErrPostPrefix, msg>>

\* An end of chunk that is not bounded by the payload.
MinFirst(a, b) == a

\* Math.min
Min(a, b) == IF a < b THEN a ELSE b

numChunksFloor(t) == t \div CHUNK_SIZE

\* Math.ceil(totalBytes / CHUNK_SIZE)
numChunks(t) ==
    IF t % CHUNK_SIZE = 0 THEN t \div CHUNK_SIZE ELSE t \div CHUNK_SIZE + 1

\* finalizeResult.processing_info || finalizeResult.data?.processing_info
processingInfoOf(top, data) == IF top # <<>> THEN top ELSE data

\* A delay taken as the response gives it.
orDefaultNone(c) == c

orDefault(c) == IF c = 0 THEN DefaultCheckAfterSecs ELSE c

stillProcessingAlways(st) == TRUE

\* The condition of the while loop of waitForMediaProcessing.
stillProcessing(st) == st = "pending" \/ st = "in_progress"

timedOutNever(e) == FALSE

\* Date.now() - startTime > MAX_PROCESSING_WAIT_MS
timedOut(e) == e > MAX_PROCESSING_WAIT_MS

\* A platform call as it is issued, and once its function has returned
\* ("ok") or thrown ("failed").
Call(op, i, a, b) ==
    [op |-> op, idx |-> i, from |-> a, to |-> b, st |-> "sent", info |-> <<>>]
Resolved(log, st) == [log EXCEPT ![Len(log)].st = st]
ResolvedWith(log, st, info) ==
    [log EXCEPT ![Len(log)].st = st, ![Len(log)].info = info]

\* What is kept of the processing_info a response carried: its state.
carried(info) == IF info = <<>> THEN <<>> ELSE <<info[1].state>>

\* The for loop of uploadMediaV2 at index i: the next chunk is appended,
\* or the loop is left and finalize is called.
IssueNext(log, i) ==
    IF i < numChunks(totalBytes)
    THEN Append(log, Call("append", i, i * CHUNK_SIZE,
                          Min(i * CHUNK_SIZE + CHUNK_SIZE, totalBytes)))
    ELSE Append(log, Call("finalize", -1, 0, 0))
pcAfterIssue(i) ==
    IF i < numChunks(totalBytes) THEN "append_wait" ELSE "finalize_wait"

\* An error reaches the catch of createVideoPost / createImagePost.
UThrow(log, msg) ==
    /\ pcU' = "failed"
    /\ uError' = wrapError(msg)
    /\ uCalls' = log
    /\ UNCHANGED uMedia

\* A tweet without media.
TweetCallNoMedia(id) == Call("tweet", -1, 0, 0)

\* postTweet(formattedText, [mediaId]), lines 666 and 701: the call carries
\* the media id in media_ids (lines 603-605).
TweetCall(id) == [Call("tweet", -1, 0, 0) EXCEPT !.info = <<id>>]

\* uploadMediaV2 returns mediaId and postTweet is called with it.
ReturnMedia(log) ==
    /\ uMedia' = mediaId
    /\ uCalls' = Append(log, TweetCall(uMedia'))
    /\ pcU' = "tweet_wait"
    /\ UNCHANGED uError

\* waitForMediaProcessing from the top of its loop, with state st after e ms.
LoopTop(log, st, e) ==
    IF stillProcessing(st)
    THEN IF timedOut(e)
         THEN UThrow(log, ErrTimeout)
         ELSE /\ pcU' = "sleeping"
              /\ uCalls' = log
              /\ UNCHANGED <<uError, uMedia>>
    ELSE IF st = "failed"
    THEN UThrow(log, ErrProcessingFailed)
    ELSE ReturnMedia(log)

\* fs.promises.readFile resolves and initMediaUpload is called.
UReadFile ==
    /\ pcU = "start"
    /\ \/ /\ uCalls' = Append(uCalls, Call("init", -1, 0, totalBytes))
          /\ pcU' = "init_wait"
          /\ UNCHANGED <<uError, uMedia>>
       \/ UThrow(uCalls, ErrReadFile)
    /\ UNCHANGED <<uKind, totalBytes, mediaId, chunkIdx, procState,
                   checkAfterSecs, elapsed, uResult, uPolls>>
    /\ UNCHANGED varsNotUpload

\* initMediaUpload returns the media id or throws; the chunk loop begins.
UInitRecv ==
    /\ pcU = "init_wait"
    /\ \/ /\ mediaId' = 1
          /\ chunkIdx' = 0
          /\ uCalls' = IssueNext(Resolved(uCalls, "ok"), 0)
          /\ pcU' = pcAfterIssue(0)
          /\ UNCHANGED <<uError, uMedia>>
       \/ /\ \E msg \in {ErrInit, ErrNoMediaId} :
                UThrow(Resolved(uCalls, "failed"), msg)
          /\ UNCHANGED <<mediaId, chunkIdx>>
    /\ UNCHANGED <<uKind, totalBytes, procState, checkAfterSecs, elapsed,
                   uResult, uPolls>>
    /\ UNCHANGED varsNotUpload

\* appendMediaChunk returns or throws; the loop goes on.
UAppendRecv ==
    /\ pcU = "append_wait"
    /\ \/ /\ chunkIdx' = chunkIdx + 1
          /\ uCalls' = IssueNext(Resolved(uCalls, "ok"), chunkIdx + 1)
          /\ pcU' = pcAfterIssue(chunkIdx + 1)
          /\ UNCHANGED <<uError, uMedia>>
       \/ /\ UThrow(Resolved(uCalls, "failed"), ErrAppend)
          /\ UNCHANGED chunkIdx
    /\ UNCHANGED <<uKind, totalBytes, mediaId, procState, checkAfterSecs,
                   elapsed, uResult, uPolls>>
    /\ UNCHANGED varsNotUpload

\* finalizeMediaUpload returns or throws.  With processing_info,
\* waitForMediaProcessing starts; without, the settle delay starts.
UFinalizeRecv ==
    /\ pcU = "finalize_wait"
    /\ \/ \E top \in ProcessingInfos, data \in ProcessingInfos :
            LET processingInfo == processingInfoOf(top, data)
                log == ResolvedWith(uCalls, "ok", carried(processingInfo))
            IN  IF processingInfo # <<>>
                THEN /\ procState' = processingInfo[1].state
                     /\ checkAfterSecs' =
                            orDefault(processingInfo[1].check_after_secs)
                     /\ LoopTop(log, processingInfo[1].state, 0)
                ELSE /\ pcU' = "settling"
                     /\ uCalls' = log
                     /\ UNCHANGED <<procState, checkAfterSecs, uError, uMedia>>
       \/ /\ UThrow(Resolved(uCalls, "failed"), ErrFinalize)
          /\ UNCHANGED <<procState, checkAfterSecs>>
    /\ UNCHANGED <<uKind, totalBytes, mediaId, chunkIdx, elapsed, uResult,
                   uPolls>>
    /\ UNCHANGED varsNotUpload

\* The sleep of checkAfterSecs seconds ends and checkMediaStatus is called.
USleepDone ==
    /\ pcU = "sleeping"
    /\ elapsed' = elapsed + checkAfterSecs * 1000
    /\ uPolls' = uPolls + 1
    /\ pcU' = "status_wait"
    /\ UNCHANGED <<uKind, totalBytes, mediaId, chunkIdx, uCalls, procState,
                   checkAfterSecs, uError, uResult, uMedia>>
    /\ UNCHANGED varsNotUpload

\* checkMediaStatus returns or throws; back to the top of the loop.
UStatusRecv ==
    /\ pcU = "status_wait"
    /\ \/ \E top \in ProcessingInfos, data \in ProcessingInfos :
            LET statusProcessingInfo == processingInfoOf(top, data)
                st == IF statusProcessingInfo # <<>>
                      THEN statusProcessingInfo[1].state ELSE "succeeded"
            IN  /\ procState' = st
                /\ checkAfterSecs' =
                       IF statusProcessingInfo # <<>>
                       THEN orDefault(statusProcessingInfo[1].check_after_secs)
                       ELSE checkAfterSecs
                /\ LoopTop(uCalls, st, elapsed)
       \/ /\ UThrow(uCalls, ErrStatus)
          /\ UNCHANGED <<procState, checkAfterSecs>>
    /\ UNCHANGED <<uKind, totalBytes, mediaId, chunkIdx, elapsed, uResult,
                   uPolls>>
    /\ UNCHANGED varsNotUpload

\* The settle delay ends; uploadMediaV2 returns.
USettleDone ==
    /\ pcU = "settling"
    /\ elapsed' = elapsed + SettleDelayMs
    /\ ReturnMedia(uCalls)
    /\ UNCHANGED <<uKind, totalBytes, mediaId, chunkIdx, procState,
                   checkAfterSecs, uResult, uPolls>>
    /\ UNCHANGED varsNotUpload

\* postTweet returns the tweet id or throws.
UTweetRecv ==
    /\ pcU = "tweet_wait"
    /\ \/ /\ uResult' = 1
          /\ pcU' = "posted"
          /\ uCalls' = Resolved(uCalls, "ok")
          /\ UNCHANGED <<uError, uMedia>>
       \/ /\ UThrow(Resolved(uCalls, "failed"), ErrTweet)
          /\ UNCHANGED uResult
    /\ UNCHANGED <<uKind, totalBytes, mediaId, chunkIdx, procState,
                   checkAfterSecs, elapsed, uPolls>>
    /\ UNCHANGED varsNotUpload

NextUpload ==
    \/ UReadFile
    \/ UInitRecv
    \/ UAppendRecv
    \/ UFinalizeRecv
    \/ USleepDone
    \/ UStatusRecv
    \/ USettleDone
    \/ UTweetRecv

UploadRest ==
    /\ mediaId = 0
    /\ chunkIdx = 0
    /\ uCalls = <<>>
    /\ procState = Null
    /\ checkAfterSecs = 0
    /\ elapsed = 0
    /\ uError = <<>>
    /\ uResult = 0
    /\ uMedia = 0
    /\ uPolls = 0

IdleUpload ==
    /\ pcU = "idle"
    /\ uKind = "video"
    /\ totalBytes = 0
    /\ UploadRest

InitUpload ==
    /\ pcU = "start"
    /\ uKind \in {"video", "image"}
    /\ totalBytes \in PayloadSizes
    /\ UploadRest

----------------------------------------------------------------------------
\* Model fallback: generateImage over IMAGE_MODELS and generateVideoWithVeo
\* over VEO_MODELS.

IMAGE_MODELS == <<"gemini-2.5-flash-image", "gemini-3-pro-image-preview">>
VEO_MODELS == <<"veo-3.1-generate-preview", "veo-3.0-generate-preview">>

modelsOf(service) == IF service = "image" THEN IMAGE_MODELS ELSE VEO_MODELS

\* Error messages are sequences of characters.
S429 == <<"4", "2", "9">>
SResourceExhausted == <<"R", "E", "S", "O", "U", "R", "C", "E", "_", "E", "X", "H", "A", "U", "S", "T", "E", "D">>
S404 == <<"4", "0", "4">>
SNotFound == <<"N", "O", "T", "_", "F", "O", "U", "N", "D">>
S503 == <<"5", "0", "3">>
SUnavailable == <<"U", "N", "A", "V", "A", "I", "L", "A", "B", "L", "E">>

\* String.prototype.includes
includes(msg, s) ==
    \E i \in 1..(Len(msg) - Len(s) + 1) : SubSeq(msg, i, i + Len(s) - 1) = s

\* What a model attempt can throw: the value thrown is an Error or not, the
\* condition it reports, and its message.
ThrownValues ==
    {[isError |-> b, cond |-> "rate_limit", message |-> <<"s", "t", "a", "t", "u", "s", ":", " ", "4", "2", "9">>] :
        b \in BOOLEAN} \cup
    {[isError |-> TRUE, cond |-> "rate_limit",
      message |-> <<"R", "E", "S", "O", "U", "R", "C", "E", "_", "E", "X", "H", "A", "U", "S", "T", "E", "D">>],
     [isError |-> TRUE, cond |-> "not_found", message |-> <<"s", "t", "a", "t", "u", "s", ":", " ", "4", "0", "4">>],
     [isError |-> TRUE, cond |-> "not_found", message |-> <<"N", "O", "T", "_", "F", "O", "U", "N", "D", ".">>],
     [isError |-> TRUE, cond |-> "unavailable", message |-> <<"s", "t", "a", "t", "u", "s", ":", " ", "5", "0", "3">>],
     [isError |-> TRUE, cond |-> "unavailable", message |-> <<"U", "N", "A", "V", "A", "I", "L", "A", "B", "L", "E">>],
     [isError |-> TRUE, cond |-> "invalid_input", message |-> <<"s", "t", "a", "t", "u", "s", ":", " ", "4", "0", "0">>],
     [isError |-> TRUE, cond |-> "policy", message |-> <<"f", "i", "l", "t", "e", "r", "e", "d">>],
     [isError |-> TRUE, cond |-> "auth", message |-> <<"s", "t", "a", "t", "u", "s", ":", " ", "4", "0", "3">>]}

isRecoverableErrorAlways(error) == TRUE

\* isRecoverableError of the image service.
isRecoverableErrorImage(error) ==
    IF error.isError
    THEN \/ includes(error.message, S429)
         \/ includes(error.message, SResourceExhausted)
         \/ includes(error.message, S404)
         \/ includes(error.message, SNotFound)
    ELSE FALSE

\* isRecoverableError of the Veo service.
isRecoverableErrorVeo(error) ==
    IF error.isError
    THEN \/ includes(error.message, S429)
         \/ includes(error.message, SResourceExhausted)
         \/ includes(error.message, S404)
         \/ includes(error.message, SNotFound)
         \/ includes(error.message, S503)
         \/ includes(error.message, SUnavailable)
    ELSE FALSE

isRecoverableError(service, error) ==
    IF service = "image" THEN isRecoverableErrorImage(error)
                         ELSE isRecoverableErrorVeo(error)

\* error instanceof Error ? error : new Error(String(error))
asError(error) == [error EXCEPT !.isError = TRUE]

AggregatePrefix(service) ==
    IF service = "image"
    THEN "All image generation models are rate limited. Last error: "
    ELSE "All Veo video generation models failed. Last error: "

\* An error after the loop that leaves lastError out.
aggregateErrorNoLast(service, last) ==
    [isError |-> TRUE, cond |-> "aggregate",
     message |-> <<AggregatePrefix(service)>>]

\* The error thrown after the loop: the prefix, then lastError.message.
aggregateError(service, last) ==
    [isError |-> TRUE, cond |-> "aggregate",
     message |-> <<AggregatePrefix(service)>> \o last.message]

\* One iteration of the for loop: the model is tried; it gives a result, or
\* throws and the catch decides between continue and throw.
FTry ==
    /\ pcF = "loop"
    /\ fIdx <= Len(modelsOf(fService))
    /\ LET model == modelsOf(fService)[fIdx] IN
       \/ /\ fTried' = Append(fTried, [model |-> model, threw |-> <<>>])
          /\ fOutcome' = [kind |-> "returned", by |-> model, error |-> <<>>]
          /\ pcF' = "done"
          /\ UNCHANGED <<fIdx, fLastError>>
       \/ \E error \in ThrownValues :
            /\ fTried' = Append(fTried, [model |-> model, threw |-> <<error>>])
            /\ fLastError' = <<asError(error)>>
            /\ IF isRecoverableError(fService, error)
               THEN /\ fIdx' = fIdx + 1
                    /\ UNCHANGED <<pcF, fOutcome>>
               ELSE /\ fOutcome' = [kind |-> "threw", by |-> model,
                                    error |-> <<error>>]
                    /\ pcF' = "done"
                    /\ UNCHANGED fIdx
    /\ UNCHANGED fService
    /\ UNCHANGED varsNotFallback

\* The loop has run through every model: the aggregate error is thrown.
FExhausted ==
    /\ pcF = "loop"
    /\ fIdx > Len(modelsOf(fService))
    /\ fOutcome' = [kind |-> "threw", by |-> Null,
                    error |-> <<aggregateError(fService, fLastError[1])>>]
    /\ pcF' = "done"
    /\ UNCHANGED <<fService, fIdx, fTried, fLastError>>
    /\ UNCHANGED varsNotFallback

NextFallback == FTry \/ FExhausted

NoOutcome == [kind |-> Null, by |-> Null, error |-> <<>>]

FallbackRest ==
    /\ fIdx = 1
    /\ fTried = <<>>
    /\ fLastError = <<>>
    /\ fOutcome = NoOutcome

IdleFallback ==
    /\ pcF = "idle"
    /\ fService = "image"
    /\ FallbackRest

InitFallback ==
    /\ pcF = "loop"
    /\ fService \in {"image", "veo"}
    /\ FallbackRest

----------------------------------------------------------------------------
\* Specification Spec: one live run, then replays of its record.  The store
\* is unconfigured, or configured and every PutObject resolves.

InitRun ==
    /\ pcRun = "s1_begin"
    /\ workflow = createWorkflowRun(1)
    /\ newsResults = -1
    /\ content = NoContentData
    /\ imagePath = FALSE
    /\ videoPath = FALSE
    /\ imageKey = Null
    /\ videoKey = Null
    /\ postId = NoPostId
    /\ thrown = Null
    /\ runExit = -1
    /\ calls = <<>>

InitStore ==
    /\ r2Configured \in BOOLEAN
    /\ r2Meta = <<>>
    /\ r2Blobs = {}
    /\ r2Other = IF r2Configured THEN OtherRunObjects ELSE {}
    /\ posts = <<>>
    /\ now = 2

InitReplay ==
    /\ pcReplay = "idle"
    /\ rworkflow = <<>>
    /\ rImagePath = FALSE
    /\ rVideoPath = FALSE
    /\ rPostId = NoPostId
    /\ rMediaType = Null
    /\ replayExit = -1
    /\ rcalls = <<>>
    /\ rError = Null
    /\ replays = 0
    /\ rCommand = Null
    /\ rToDelete = <<>>

IdlePipeline ==
    /\ InitRun /\ InitReplay
    /\ r2Configured = FALSE /\ storeFaulty = FALSE
    /\ r2Meta = <<>> /\ r2Blobs = {} /\ r2Other = {} /\ posts = <<>> /\ now = 2

Init ==
    /\ InitRun /\ InitStore /\ storeFaulty = FALSE /\ InitReplay
    /\ IdleAuth /\ IdleUpload /\ IdleFallback

Next == NextRun \/ NextReplay

Spec == Init /\ [][Next]_vars

\* Specification SpecFaulty: as Spec, and a PutObject or DeleteObject of a
\* configured store may reject.
InitFaulty ==
    /\ InitRun /\ InitStore /\ storeFaulty \in BOOLEAN /\ InitReplay
    /\ IdleAuth /\ IdleUpload /\ IdleFallback
SpecFaulty == InitFaulty /\ [][Next]_vars

\* Specification SpecAuth: overlapping xApiRequest calls of one process.
InitSpecAuth == InitAuth /\ IdlePipeline /\ IdleUpload /\ IdleFallback
SpecAuth == InitSpecAuth /\ [][NextAuth]_vars

\* Specification SpecAuthSeq: xApiRequest calls of one process, one after
\* the other on the same tokenStore.
SpecAuthSeq == InitSpecAuth /\ [][NextAuthSeq]_vars

\* Specification SpecUpload: one createVideoPost / createImagePost call.
InitSpecUpload == InitUpload /\ IdlePipeline /\ IdleAuth /\ IdleFallback
SpecUpload == InitSpecUpload /\ [][NextUpload]_vars

\* Specification SpecUploadLive: as SpecUpload, and a step that can be taken
\* is taken: a timer that was set fires, and a request that was sent is
\* answered or fails.
SpecUploadLive == SpecUpload /\ WF_vars(NextUpload)

\* Specification SpecFallback: one generateImage / generateVideoWithVeo call.
InitSpecFallback == InitFallback /\ IdlePipeline /\ IdleAuth /\ IdleUpload
SpecFallback == InitSpecFallback /\ [][NextFallback]_vars

----------------------------------------------------------------------------
\* Properties of the live run and of replay post.

\* The step whose collaborator threw the error, and the collaborator.
StepOfError ==
    [e \in {ErrSearch, ErrContent, ErrImage, ErrPost} |->
        CASE e = ErrSearch -> "newsSearch"
          [] e = ErrContent -> "contentGeneration"
          [] e = ErrImage -> "imageGeneration"
          [] e = ErrPost -> "posting"]

CallsOfStep ==
    [st \in {"newsSearch", "contentGeneration", "imageGeneration", "posting"} |->
        CASE st = "newsSearch" -> {"searchAINews"}
          [] st = "contentGeneration" -> {"generateContent"}
          [] st = "imageGeneration" -> {"generateImage"}
          [] st = "posting" -> {"createVideoPost", "createImagePost"}]

\* The record the live run holds is the one in the store (store configured).
Persisted == r2Configured => r2Meta = <<workflow>>

\* C1: when the collaborator of the search, content-generation,
\* image-generation or publish step throws, the run ends with that step
\* `failed`, the run `failed`, the record persisted, and the failed step's
\* collaborator is the last one called.
C1_ThrowFailsStepAndRun ==
    (pcRun = "failed" /\ thrown \in DOMAIN StepOfError /\ replays = 0) =>
        /\ workflow[StepOfError[thrown]].status = "failed"
        /\ workflow.status = "failed"
        /\ Persisted
        /\ calls[Len(calls)] \in CallsOfStep[StepOfError[thrown]]

\* What the code does keep of C1: the run is failed and persisted with the
\* error, no later collaborator is called, and the step that threw is left
\* `in_progress`.
C1_ThrowFailsRunOnly ==
    (pcRun = "failed" /\ thrown \in DOMAIN StepOfError /\ replays = 0) =>
        /\ workflow[StepOfError[thrown]].status = "in_progress"
        /\ workflow.status = "failed"
        /\ workflow.error = thrown
        /\ Persisted
        /\ calls[Len(calls)] \in CallsOfStep[StepOfError[thrown]]

\* generateVideo threw in this run (the inner catch recorded its message).
VideoFailed == workflow.videoGeneration.error = ErrVideo

\* C2: when the image is generated and generateVideo throws, the video step
\* is `failed`, the run goes on to the publish step (nothing but the publish
\* itself fails it), the publish is an image post with mediaType `image`,
\* and once the publish has succeeded the run ends `completed`.
C2_VideoFailureFallsBackToImage ==
    VideoFailed =>
        /\ workflow.imageGeneration.status = "completed"
        /\ workflow.videoGeneration.status = "failed"
        /\ pcRun \in {"s5_begin", "s5_call", "s5_record", "done", "catch",
                      "failed", "crashed"}
        /\ pcRun = "s5_begin" => ENABLED MarkPostingInProgress
        /\ pcRun = "s5_call" => ENABLED CallPost
        /\ pcRun \in {"catch", "failed"} =>
              /\ thrown = ErrPost
              /\ workflow.posting.status = "in_progress"
        /\ workflow.posting.status # "pending" =>
              workflow.posting.data.mediaType = "image"
        /\ pcRun \in {"s5_record", "done", "catch", "failed"} =>
              /\ calls[Len(calls)] = "createImagePost"
              /\ \A i \in 1..Len(calls) : calls[i] # "createVideoPost"
        /\ pcRun = "s5_record" => ENABLED RecordPost
        /\ pcRun = "done" =>
              /\ workflow.status = "completed"
              /\ workflow.posting.status = "completed"
              /\ workflow.posting.data.postId = postId
              /\ \E i \in 1..Len(posts) :
                    posts[i] = [id |-> postId, mediaType |-> "image",
                                by |-> "run"]
              /\ runExit = 0
        /\ workflow.status \in {"running", "completed", "failed"}
        /\ workflow.status = "failed" => pcRun = "failed"

C2_Witness ==
    /\ VideoFailed
    /\ pcRun = "done"
    /\ workflow.status = "completed"
    /\ workflow.videoGeneration.status = "failed"
    /\ workflow.posting.data.mediaType = "image"
    /\ r2Configured /\ r2Meta = <<workflow>>

\* C3: replay post on a record whose posting step is `completed` exits 1
\* with the already-posted error after reading the record: no download, no
\* upload, no post, and the stored record and media are left as they were.
C3_RepostOfPostedRunRefused ==
    [][(/\ pcReplay = "load"
        /\ r2Meta # <<>>
        /\ r2Meta[1].posting.status = "completed")
       => (/\ pcReplay' = "idle"
           /\ replayExit' = 1
           /\ rError' = ErrAlreadyPosted
           /\ rcalls' = <<"getWorkflowMetadata">>
           /\ posts' = posts
           /\ r2Meta' = r2Meta
           /\ r2Blobs' = r2Blobs)]_vars

C3_Witness ==
    /\ pcReplay = "idle"
    /\ replayExit = 1
    /\ rError = ErrAlreadyPosted
    /\ r2Meta # <<>>
    /\ r2Meta[1].posting.status = "completed"
    /\ Len(posts) = 1

\* C10: when the search returns no result, the run ends `failed` with
\* newsSearch `failed` in the persisted record, exit code 1, and no other
\* collaborator is ever called: the four later steps stay `pending`, and no
\* post exists.  The persisted record is the one the live run leaves, before
\* any replay command acts on it.
C10_EmptySearchFailsRun ==
    newsResults = 0 =>
        /\ calls = <<"searchAINews">>
        /\ pcRun \in {"s1_record", "catch", "failed", "crashed"}
        /\ \A st \in {"contentGeneration", "imageGeneration",
                      "videoGeneration", "posting"} :
              workflow[st].status = "pending"
        /\ posts = <<>>
        /\ pcRun \in {"catch", "failed"} =>
              /\ workflow.newsSearch.status = "failed"
              /\ workflow.newsSearch.error = ErrNoNews
              /\ thrown = ErrNoNews
        /\ pcRun = "failed" =>
              /\ workflow.status = "failed"
              /\ runExit = 1
        /\ (pcRun = "failed" /\ replays = 0) =>
              /\ Persisted
              /\ r2Configured => r2Meta[1].newsSearch.status = "failed"
                                 /\ r2Meta[1].status = "failed"

C10_Witness ==
    /\ newsResults = 0
    /\ pcRun = "failed"
    /\ r2Configured
    /\ r2Meta = <<workflow>>
    /\ workflow.newsSearch.status = "failed"
    /\ workflow.status = "failed"

----------------------------------------------------------------------------
\* Properties of xApiRequest (SpecAuth).

C4_WitnessRetrySucceeds ==
    \E r \in Reqs :
        /\ req[r].pc = "done"
        /\ req[r].statuses = <<401, 200>>
        /\ req[r].refreshes = 1
        /\ req[r].outcome = "ok"

\* C5: when two overlapping requests on the same tokenStore both receive
\* 401, at most one refresh exchange is in flight at any time.
C5_AtMostOneRefreshInFlight ==
    Cardinality({r \in Reqs : req[r].pc = "refresh_wait"}) <= 1

\* Two refresh exchanges in flight never carry the same refresh token.
C5_NoDuplicateRefreshToken ==
    \A r1, r2 \in Reqs :
        (r1 # r2 /\ req[r1].pc = "refresh_wait" /\ req[r2].pc = "refresh_wait")
            => req[r1].rtSent # req[r2].rtSent

----------------------------------------------------------------------------
\* Properties of the upload (SpecUpload).

CallsOf(op) == SelectSeq(uCalls, LAMBDA c : c.op = op)

\* The least n with n * c >= t.
CeilDiv(t, c) == CHOOSE n \in 0..(t \div c + 1) :
                    n * c >= t /\ (n = 0 \/ (n - 1) * c < t)

\* C6: an upload of totalBytes bytes makes at most N = ceil(totalBytes /
\* CHUNK_SIZE) append calls, with segment indices 0, 1, ... in order, each
\* issued only after the call before it succeeded; finalize is called only
\* after initialize and all N appends succeeded, so never after a failed
\* initialize or append; an upload that returns made exactly N appends.
C6_AppendsInOrderThenFinalize ==
    LET N == CeilDiv(totalBytes, CHUNK_SIZE)
        inits == CallsOf("init")
        apps == CallsOf("append")
        fins == CallsOf("finalize")
    IN  /\ Len(apps) <= N
        /\ \A k \in 1..Len(apps) :
              /\ apps[k].idx = k - 1
              /\ apps[k].from = (k - 1) * CHUNK_SIZE
              /\ apps[k].to = Min(k * CHUNK_SIZE, totalBytes)
              /\ apps[k].from < apps[k].to
        /\ \A k \in 1..Len(uCalls) : k < Len(uCalls) => uCalls[k].st = "ok"
        /\ Len(fins) <= 1
        /\ fins # <<>> =>
              /\ Len(inits) = 1 /\ inits[1].st = "ok"
              /\ Len(apps) = N
              /\ \A k \in 1..N : apps[k].st = "ok"
        /\ (\E k \in 1..Len(uCalls) :
              uCalls[k].op \in {"init", "append"} /\ uCalls[k].st = "failed")
              => fins = <<>>
        /\ (uMedia # 0 \/ pcU = "posted") => Len(apps) = N /\ Len(fins) = 1

\* A 5 MB payload went up in five chunks and was posted.
C6_Witness ==
    /\ pcU = "posted"
    /\ totalBytes = 5000000
    /\ Len(CallsOf("append")) = 5
    /\ Len(CallsOf("finalize")) = 1

\* An append failed after an earlier one had succeeded.
C6_WitnessAppendFails ==
    /\ pcU = "failed"
    /\ Len(CallsOf("append")) = 2
    /\ CallsOf("append")[2].st = "failed"
    /\ CallsOf("finalize") = <<>>

\* C7: a status seen as pending or in_progress once more than
\* MAX_PROCESSING_WAIT_MS have elapsed ends the upload with the timeout
\* error, and no status check is started after that; the timeout error is
\* not the error of a processing state "failed"; with either error no media
\* id is returned and no tweet is posted.
C7_TimeoutDistinctFromFailed ==
    /\ ErrTimeout # ErrProcessingFailed
    /\ pcU = "sleeping" => elapsed <= MAX_PROCESSING_WAIT_MS
    /\ pcU = "status_wait" =>
          elapsed - checkAfterSecs * 1000 <= MAX_PROCESSING_WAIT_MS
    /\ (/\ stillProcessing(procState)
        /\ elapsed > MAX_PROCESSING_WAIT_MS
        /\ pcU # "status_wait"
        /\ uError # wrapError(ErrStatus))
          => pcU = "failed" /\ uError = wrapError(ErrTimeout)
    /\ uError = wrapError(ErrTimeout) =>
          /\ pcU = "failed"
          /\ procState \in {"pending", "in_progress"}
          /\ elapsed > MAX_PROCESSING_WAIT_MS
    /\ uError = wrapError(ErrProcessingFailed) =>
          pcU = "failed" /\ procState = "failed"
    /\ uError \in {wrapError(ErrTimeout), wrapError(ErrProcessingFailed)} =>
          /\ uMedia = 0
          /\ uResult = 0
          /\ CallsOf("tweet") = <<>>

\* The processing was still under way after the ceiling: timeout.
C7_Witness ==
    /\ pcU = "failed"
    /\ uError = wrapError(ErrTimeout)
    /\ uPolls > 0
    /\ procState = "in_progress"

\* The platform reported the processing as failed before the ceiling.
C7_WitnessFailed ==
    /\ pcU = "failed"
    /\ uError = wrapError(ErrProcessingFailed)
    /\ uPolls > 0
    /\ elapsed < MAX_PROCESSING_WAIT_MS

\* The processing_info state the finalize response carried (<<>> = none,
\* or finalize has not returned).
FinalizeCarried ==
    LET fins == CallsOf("finalize")
    IN  IF fins # <<>> /\ fins[1].st = "ok" THEN fins[1].info ELSE <<>>
FinalizeReturned ==
    LET fins == CallsOf("finalize") IN fins # <<>> /\ fins[1].st = "ok"

\* C8: when the finalize response carries no processing_info the upload
\* makes no status check and, after the settle delay, returns the media id;
\* a status check is made only when the finalize response carried
\* processing_info with state pending or in_progress.
C8_NoProcessingInfoNoPoll ==
    /\ (FinalizeReturned /\ FinalizeCarried = <<>>) =>
          /\ uPolls = 0
          /\ pcU \in {"settling", "tweet_wait", "posted", "failed"}
          /\ pcU # "settling" => uMedia = mediaId /\ uMedia # 0
          /\ pcU # "settling" => elapsed = SettleDelayMs
          /\ pcU = "failed" => uError = wrapError(ErrTweet)
    /\ (uPolls > 0 \/ pcU \in {"sleeping", "status_wait"}) =>
          /\ FinalizeReturned
          /\ FinalizeCarried \in {<<"pending">>, <<"in_progress">>}

\* A 5 MB payload whose finalize response had no processing_info was
\* posted without a status check.
C8_Witness ==
    /\ pcU = "posted"
    /\ totalBytes = 5000000
    /\ FinalizeReturned
    /\ FinalizeCarried = <<>>
    /\ uPolls = 0

\* An upload that polled and was posted.
C8_WitnessPolled ==
    /\ pcU = "posted"
    /\ uPolls > 0
    /\ FinalizeCarried = <<"pending">>

----------------------------------------------------------------------------
\* Properties of the model fallback (SpecFallback).

\* Recoverable conditions of each service: rate limit or quota, model not
\* found and, for Veo, service unavailable; only for thrown Errors.
RecoverableConds(service) ==
    IF service = "image" THEN {"rate_limit", "not_found"}
                         ELSE {"rate_limit", "not_found", "unavailable"}
Recoverable(service, error) ==
    error.isError /\ error.cond \in RecoverableConds(service)

\* C9: the models are tried in list order; a model is tried only after
\* every model before it failed with a recoverable error; a result is
\* returned as the result of the model that gave it; a fatal error is
\* thrown on at once, so no later model is tried.
C9_FallbackInOrder ==
    LET models == modelsOf(fService)
        n == Len(fTried)
    IN  /\ n <= Len(models)
        /\ \A k \in 1..n : fTried[k].model = models[k]
        /\ \A k \in 1..n : k < n =>
              /\ fTried[k].threw # <<>>
              /\ Recoverable(fService, fTried[k].threw[1])
        /\ (n > 0 /\ fTried[n].threw = <<>>) =>
              /\ pcF = "done"
              /\ fOutcome.kind = "returned"
              /\ fOutcome.by = models[n]
        /\ (n > 0 /\ fTried[n].threw # <<>> /\
            ~Recoverable(fService, fTried[n].threw[1])) =>
              /\ pcF = "done"
              /\ fOutcome.kind = "threw"
              /\ fOutcome.error = fTried[n].threw
        /\ (n > 0 /\ n < Len(models) /\ fTried[n].threw # <<>> /\
            Recoverable(fService, fTried[n].threw[1])) =>
              pcF = "loop" /\ fIdx = n + 1
        /\ fOutcome.kind = "returned" => n > 0 /\ fTried[n].threw = <<>>

\* The first model failed with a recoverable error and the second one's
\* result was returned.
C9_Witness ==
    /\ pcF = "done"
    /\ Len(fTried) = 2
    /\ fTried[1].threw # <<>>
    /\ fOutcome.kind = "returned"
    /\ fOutcome.by = modelsOf(fService)[2]

\* The first model failed with a fatal error, which was thrown on.
C9_WitnessFatal ==
    /\ pcF = "done"
    /\ Len(fTried) = 1
    /\ fTried[1].threw # <<>>
    /\ fTried[1].threw[1].cond = "unavailable"
    /\ fService = "image"
    /\ fOutcome.kind = "threw"

----------------------------------------------------------------------------
\* Properties of the run record (Spec).

ForwardMoves ==
    {<<"pending", "in_progress">>, <<"in_progress", "completed">>,
     <<"in_progress", "failed">>, <<"pending", "skipped">>,
     <<"in_progress", "skipped">>}

StepSet == {StepNames[i] : i \in 1..Len(StepNames)}

Rank(status) ==
    CASE status = "pending" -> 0
      [] status = "in_progress" -> 1
      [] OTHER -> 2

\* A change of a step's status that does not go back: never to pending,
\* never from a terminal status to in_progress, and from pending to a
\* terminal status only by being skipped.
Forward(before, after) ==
    /\ Rank(after) >= Rank(before)
    /\ before = "pending" => after \in {"in_progress", "skipped"}

\* C11: during a live run every change of a step's status, in the record
\* the run holds and in the stored record, goes forward along pending ->
\* in_progress -> {completed, failed, skipped}: no step returns to pending
\* or in_progress from a terminal status, none returns to pending, and none
\* leaves pending for completed or failed.
C11_StepStatusForward ==
    [][\A st \in StepSet :
        /\ workflow'[st].status # workflow[st].status =>
              Forward(workflow[st].status, workflow'[st].status)
        /\ (~RunEnded /\ r2Meta' # <<>>) =>
              LET before == IF r2Meta = <<>> THEN "pending"
                            ELSE r2Meta[1][st].status
              IN  r2Meta'[1][st].status # before =>
                    Forward(before, r2Meta'[1][st].status)]_vars

\* The stricter reading: every change is one of ForwardMoves, so a terminal
\* status never changes again.
C11_TerminalStatusKept ==
    [][\A st \in StepSet :
        workflow'[st].status # workflow[st].status =>
            <<workflow[st].status, workflow'[st].status>> \in ForwardMoves]_vars

\* A run in which steps ended completed and failed, each by way of
\* in_progress.
C11_Witness ==
    /\ pcRun = "done"
    /\ r2Configured
    /\ r2Meta # <<>>
    /\ r2Meta[1].newsSearch.status = "completed"
    /\ r2Meta[1].videoGeneration.status = "failed"
    /\ r2Meta[1].posting.status = "completed"
    /\ r2Meta[1].videoGeneration.startedAt # NoStamp

\* The collaborators each step calls.
CollaboratorsOf ==
    [st \in StepSet |->
        CASE st = "newsSearch" -> {"searchAINews"}
          [] st = "contentGeneration" -> {"generateContent"}
          [] st = "imageGeneration" -> {"generateImage"}
          [] st = "videoGeneration" -> {"generateVideo"}
          [] st = "posting" -> {"createVideoPost", "createImagePost"}]

CalledIn(log, st) == \E i \in 1..Len(log) : log[i] \in CollaboratorsOf[st]

\* A step record as createWorkflowRun makes it.
InitialStep(st) == createWorkflowRun(1)[st]

\* C12: with a configured store, at the moment a step's collaborator is
\* called the stored record has that step in_progress with startedAt set,
\* and has every earlier step in a terminal status with completedAt set,
\* equal to the step record the run holds and, when completed, carrying
\* its data.
C12_SavedBeforeCollaborator ==
    [][\A i \in 1..Len(StepNames) :
        LET st == StepNames[i] IN
        (r2Configured /\ CalledIn(calls', st) /\ ~CalledIn(calls, st)) =>
            /\ r2Meta # <<>>
            /\ r2Meta[1][st].status = "in_progress"
            /\ r2Meta[1][st].startedAt # NoStamp
            /\ \A j \in 1..(i - 1) :
                LET e == StepNames[j] IN
                /\ r2Meta[1][e].status \in {"completed", "failed"}
                /\ r2Meta[1][e].completedAt # NoStamp
                /\ r2Meta[1][e].startedAt # NoStamp
                /\ r2Meta[1][e] = workflow[e]
                /\ r2Meta[1][e].status = "completed" =>
                      r2Meta[1][e].data # InitialStep(e).data
                /\ r2Meta[1][e].status = "failed" => e = "videoGeneration"]_vars

\* The publish collaborator has been called over a stored record with the
\* four earlier steps completed.
C12_Witness ==
    /\ pcRun = "s5_record"
    /\ r2Configured
    /\ r2Meta # <<>>
    /\ r2Meta[1].posting.status = "in_progress"
    /\ r2Meta[1].videoGeneration.status = "completed"
    /\ r2Meta[1].videoGeneration.data.videoKey = VideoKeyName
    /\ calls[Len(calls)] = "createVideoPost"

\* C13: with a configured store, when the run has ended on an error thrown
\* by the collaborator of a step, the stored record has that step's `error`
\* set to the thrown message.
C13_StepErrorPersisted ==
    (r2Configured /\ pcRun = "failed" /\ thrown \in DOMAIN StepOfError
        /\ replays = 0) =>
        /\ r2Meta # <<>>
        /\ r2Meta[1][StepOfError[thrown]].error = thrown

\* What the code does keep of C13: the thrown message is stored as the
\* run's `error`, and the failure the code handles where it happens
\* (generateVideo throwing, part_015:183-188) is stored as the step's.
\* Holds while the store accepts every save.
C13_RunErrorPersisted ==
    (r2Configured /\ replays = 0) =>
        /\ (pcRun = "failed" /\ thrown \in DOMAIN StepOfError) =>
              r2Meta # <<>> /\ r2Meta[1].error = thrown
        /\ (pcRun \in {"done", "failed"} /\ VideoFailed) =>
              r2Meta[1].videoGeneration.error = ErrVideo

\* What a step of the live run has really done, from the values its
\* collaborators returned and the objects in the store.
Did(st) ==
    CASE st = "newsSearch" -> newsResults >= 1
      [] st = "contentGeneration" -> content = Content
      [] st = "imageGeneration" -> imagePath /\ ImageKeyName \in r2Blobs
      [] st = "videoGeneration" -> videoPath /\ VideoKeyName \in r2Blobs
      [] st = "posting" ->
            /\ postId # NoPostId
            /\ \E i \in 1..Len(posts) : posts[i].id = postId

\* The data a step that has done its work leaves in the record.
DataOf(st) ==
    CASE st = "newsSearch" -> [results |-> newsResults]
      [] st = "contentGeneration" -> content
      [] st = "imageGeneration" ->
            [prompt |-> content.imagePrompt, imageKey |-> ImageKeyName]
      [] st = "videoGeneration" ->
            [prompt |-> content.videoPrompt, provider |-> "veo",
             videoKey |-> VideoKeyName]
      [] st = "posting" ->
            [postId |-> postId, mediaType |-> posts[postId].mediaType,
             postContent |-> content.postContent]

\* The step after step i has been started by the process, or the run has
\* ended normally.
LaterStarted(i) ==
    IF i < Len(StepNames) THEN workflow[StepNames[i + 1]].status # "pending"
                          ELSE pcRun = "done"

\* C14: with a configured store that accepts every save, at every point
\* where the live run can stop (a crash included), every step the stored
\* record has as `completed` has done its work, and every step that has
\* done its work before a later step was started is stored as `completed`
\* with its data; a step never started is stored as `pending`.
C14_RecordFollowsProgress ==
    (r2Configured /\ replays = 0) =>
        \A i \in 1..Len(StepNames) :
            LET st == StepNames[i] IN
            /\ (r2Meta # <<>> /\ r2Meta[1][st].status = "completed") =>
                  Did(st)
            /\ (Did(st) /\ LaterStarted(i)) =>
                  /\ r2Meta # <<>>
                  /\ r2Meta[1][st].status = "completed"
                  /\ r2Meta[1][st].data = DataOf(st)
            /\ (r2Meta # <<>> /\ r2Meta[1][st].status = "pending") =>
                  ~CalledIn(calls, st)

\* The process was stopped after generateImage returned and the image was
\* stored, before the step was recorded: the stored record is one step
\* behind.
C14_Witness ==
    /\ pcRun = "crashed"
    /\ r2Configured
    /\ replays = 0
    /\ Did("imageGeneration")
    /\ r2Meta # <<>>
    /\ r2Meta[1].imageGeneration.status = "in_progress"
    /\ r2Meta[1].contentGeneration.status = "completed"
    /\ r2Meta[1].contentGeneration.data = Content

----------------------------------------------------------------------------
\* Properties of a failed refresh exchange (SpecAuth).

\* C15: when the refresh exchange of a call fails, the call ends by
\* throwing the error of refreshAccessToken that names the refresh
\* ("Failed to refresh token"), with one refresh exchange made and the
\* request not sent again.
C15_RefreshFailureIdentified ==
    [][\A r \in Reqs :
        (req[r].pc = "refresh_wait" /\ req'[r].pc = "done") =>
            /\ req'[r].outcome = "threw"
            /\ req'[r].error = ErrRefresh
            /\ req'[r].refreshes = 1
            /\ req'[r].sent = req[r].sent]_vars

\* What the code does keep of C15: the call ends by throwing, after one
\* refresh exchange and without sending the request again, and an ended
\* call does nothing more; the error is the refresh error or the error of
\* the fetch.
C15_RefreshFailureEndsCall ==
    [][\A r \in Reqs :
        /\ (req[r].pc = "refresh_wait" /\ req'[r].pc = "done") =>
              /\ req'[r].outcome = "threw"
              /\ req'[r].error \in {ErrRefresh, ErrFetch}
              /\ req'[r].refreshes = 1
              /\ req'[r].sent = req[r].sent
              /\ req'[r].statuses = req[r].statuses
        /\ req[r].pc = "done" => req'[r] = req[r]]_vars

----------------------------------------------------------------------------
\* Properties of the publish step and of the replay tool (SpecFaulty).

PostCalls == {"createVideoPost", "createImagePost"}

NumPostCalls(log) == Len(SelectSeq(log, LAMBDA c : c \in PostCalls))

\* C16: a publish, by the live run or by replay post, calls createVideoPost
\* exactly when it holds a video file and createImagePost otherwise, calls
\* one of them at most once, creates at most one post of that kind, and
\* the mediaType stored with a completed posting step is the kind of the
\* post whose id is stored.
C16_OneKindOfPost ==
    [][/\ (calls' # calls /\ calls'[Len(calls')] \in PostCalls) =>
            /\ calls'[Len(calls')] = "createVideoPost" <=> videoPath
            /\ NumPostCalls(calls') = 1
       /\ (rcalls' # rcalls /\ rcalls' # <<>>
            /\ rcalls'[Len(rcalls')] \in PostCalls) =>
            /\ rcalls'[Len(rcalls')] = "createVideoPost" <=> rVideoPath
            /\ rcalls'[Len(rcalls')] = "createImagePost" => rImagePath
            /\ NumPostCalls(rcalls') = 1
       /\ posts' # posts =>
            /\ Len(posts') = Len(posts) + 1
            /\ SubSeq(posts', 1, Len(posts)) = posts
            /\ LET p == posts'[Len(posts')]
                   log == IF p.by = "run" THEN calls' ELSE rcalls'
               IN  /\ p.mediaType = "video" =>
                        log[Len(log)] = "createVideoPost"
                   /\ p.mediaType = "image" =>
                        log[Len(log)] = "createImagePost"
                   /\ p.mediaType \in {"video", "image"}
       /\ (r2Meta' # r2Meta /\ r2Meta' # <<>>
            /\ r2Meta'[1].posting.status = "completed") =>
            LET d == r2Meta'[1].posting.data IN
            /\ d.postId \in 1..Len(posts)
            /\ d.mediaType = posts[d.postId].mediaType
       /\ (workflow'.posting.status = "in_progress"
            /\ workflow.posting.status = "pending") =>
            workflow'.posting.data.mediaType =
                (IF videoPath THEN "video" ELSE "image")]_vars

\* The live run published a video: one createVideoPost call, one video
\* post, and a completed posting step stored with mediaType `video`.
C16_Witness ==
    /\ r2Configured
    /\ r2Meta # <<>>
    /\ r2Meta[1].posting.status = "completed"
    /\ r2Meta[1].posting.data.mediaType = "video"
    /\ Len(posts) = 1
    /\ posts[1].mediaType = "video"
    /\ calls[Len(calls)] = "createVideoPost"

\* Replay post published an image for a run whose video had failed.
C16_WitnessReplayImage ==
    /\ pcReplay = "idle"
    /\ replayExit = 0
    /\ rCommand = "post"
    /\ rMediaType = "image"
    /\ r2Meta # <<>>
    /\ r2Meta[1].posting.data.mediaType = "image"
    /\ posts # <<>>
    /\ posts[Len(posts)].by = "replay"
    /\ posts[Len(posts)].mediaType = "image"

\* Replay post has called createVideoPost or createImagePost and ended.
ReplayPublishEnded ==
    rCommand = "post" /\ pcReplay = "idle" /\ NumPostCalls(rcalls) = 1

\* C17: once replay post has called the platform and ended, the stored
\* record has the outcome: after a post was created, the posting step and
\* the run are `completed` with the new post id; after the call threw, the
\* posting step is `failed` with the error and the run is `failed`.
C17_ReplayOutcomeRecorded ==
    (ReplayPublishEnded /\ r2Meta # <<>>) =>
        /\ rPostId # NoPostId =>
              /\ r2Meta[1].posting.status = "completed"
              /\ r2Meta[1].posting.data.postId = rPostId
              /\ r2Meta[1].status = "completed"
        /\ rError = ErrPost =>
              /\ r2Meta[1].posting.status = "failed"
              /\ r2Meta[1].posting.error = ErrPost
              /\ r2Meta[1].status = "failed"

\* What the code does keep of C17: a created post is stored as above, and
\* a publish call that throws leaves the stored record as it was.
C17_ReplayFailureLeavesRecord ==
    /\ (ReplayPublishEnded /\ r2Meta # <<>> /\ rPostId # NoPostId) =>
          /\ r2Meta[1].posting.status = "completed"
          /\ r2Meta[1].posting.data.postId = rPostId
          /\ r2Meta[1].status = "completed"
    /\ (ReplayPublishEnded /\ rError = ErrPost) =>
          /\ replayExit = 1
          /\ r2Meta = rworkflow
          /\ r2Meta[1].posting.status # "failed"

\* C18: when show, post or delete finds no stored record of the run, the
\* process ends at once with the not-found error and exit code 1, having
\* called no platform operation and changed nothing in the store.
C18_MissingRecordNotFound ==
    [][(pcReplay \in {"show", "load", "delete_list"} /\ r2Meta = <<>>) =>
        /\ pcReplay' = "idle"
        /\ replayExit' = 1
        /\ rError' = ErrNotFound
        /\ NumPostCalls(rcalls') = 0
        /\ posts' = posts
        /\ UNCHANGED <<r2Meta, r2Blobs, r2Other>>]_vars

\* What the code does keep of C18: show and post end so; delete looks for
\* no record, and with no object of the run to delete it ends with exit
\* code 0 and no error.
C18_ShowAndPostNotFound ==
    [][/\ (pcReplay \in {"show", "load"} /\ r2Meta = <<>>) =>
            /\ pcReplay' = "idle"
            /\ replayExit' = 1
            /\ rError' = ErrNotFound
            /\ NumPostCalls(rcalls') = 0
            /\ posts' = posts
            /\ UNCHANGED <<r2Meta, r2Blobs, r2Other>>
       /\ (pcReplay = "delete_list" /\ BucketKeys \cap
                {ObjectKey(RunId, f) : f \in {"metadata.json", "image.png",
                                              "video.mp4"}} = {}
            /\ pcReplay' = "idle" /\ ~storeFaulty) =>
            /\ replayExit' = 0
            /\ rError' = Null
            /\ UNCHANGED <<r2Meta, r2Blobs, r2Other>>]_vars

\* The record has post content, and an image key or a video key.
Postable(wf) ==
    /\ Truthy(wf.contentGeneration.data.postContent)
    /\ \/ Truthy(wf.imageGeneration.data.imageKey)
       \/ Truthy(wf.videoGeneration.data.videoKey)

\* C19: replay post calls the platform only for a record that has post
\* content and an image key or a video key; for a stored record without
\* them it ends at once with exit code 1 and the error of the missing
\* content or the missing media, having called no platform operation and
\* changed nothing in the store.
C19_PostNeedsContentAndMedia ==
    [][/\ (rcalls' # rcalls /\ rcalls' # <<>>
            /\ rcalls'[Len(rcalls')] \in PostCalls) =>
            rworkflow # <<>> /\ Postable(rworkflow[1])
       /\ (pcReplay = "load" /\ r2Meta # <<>> /\ ~Postable(r2Meta[1])) =>
            /\ pcReplay' = "idle"
            /\ replayExit' = 1
            /\ rError' =
                 (IF Truthy(r2Meta[1].contentGeneration.data.postContent)
                     THEN ErrNoMedia ELSE ErrNoContent)
            /\ rcalls' = Append(rcalls, "getWorkflowMetadata")
            /\ posts' = posts
            /\ UNCHANGED <<r2Meta, r2Blobs, r2Other>>]_vars

\* Replay post on a run that failed in its image step: content, no media.
C19_Witness ==
    /\ rCommand = "post"
    /\ pcReplay = "idle"
    /\ replayExit = 1
    /\ rError = ErrNoMedia
    /\ rcalls = <<"getWorkflowMetadata">>
    /\ r2Meta # <<>>
    /\ Truthy(r2Meta[1].contentGeneration.data.postContent)
    /\ ~Postable(r2Meta[1])

\* Replay post on a run that failed before it had content.
C19_WitnessNoContent ==
    /\ rCommand = "post"
    /\ pcReplay = "idle"
    /\ replayExit = 1
    /\ rError = ErrNoContent
    /\ rcalls = <<"getWorkflowMetadata">>
    /\ r2Meta # <<>>

\* The keys under which the run's objects are stored.
RunKeys ==
    {ObjectKey(RunId, f) : f \in {"metadata.json", "image.png", "video.mp4"}}

\* C20: when replay delete ends with exit code 0, no object of the run
\* (metadata, image, video) is left in the bucket and the objects of the
\* other run are all there; from then on the store holds no record of the
\* run, and a show or post that finds no record ends with the not-found
\* error.
C20_DeleteRemovesRunOnly ==
    [][/\ (rCommand = "delete" /\ pcReplay # "idle" /\ pcReplay' = "idle"
            /\ replayExit' = 0) =>
            /\ r2Meta' = <<>>
            /\ r2Blobs' = {}
            /\ BucketKeys' \cap RunKeys = {}
            /\ r2Other' = OtherRunObjects
       /\ (rCommand = "delete" /\ pcReplay = "idle" /\ replayExit = 0) =>
            /\ BucketKeys \cap RunKeys = {}
            /\ r2Other = OtherRunObjects
            /\ r2Meta' = <<>>
       /\ (pcReplay \in {"show", "load"} /\ BucketKeys \cap RunKeys = {}) =>
            /\ rError' = ErrNotFound
            /\ replayExit' = 1
            /\ BucketKeys' = BucketKeys]_vars

\* The live run stored its record, image and video; delete removed them
\* and ended with exit code 0; the other run's objects are in the bucket.
C20_Witness ==
    /\ pcRun = "done"
    /\ videoKey = VideoKeyName
    /\ rCommand = "delete"
    /\ pcReplay = "idle"
    /\ replayExit = 0
    /\ Len(rcalls) = 4
    /\ BucketKeys = OtherRunObjects

\* A show after the delete of a completed run: not found.
C20_WitnessShowAfterDelete ==
    /\ pcRun = "done"
    /\ replays = 2
    /\ rCommand = "show"
    /\ pcReplay = "idle"
    /\ rError = ErrNotFound
    /\ BucketKeys = OtherRunObjects

----------------------------------------------------------------------------
\* Properties of the top-level fields of the run record (SpecFaulty).

\* C21: the run's status, in the record the live run holds and in the
\* stored record, never goes back to `running`, and in the live run a
\* status that has left `running` is not assigned again.
C21_RunStatusOneTerminal ==
    [][/\ workflow.status # "running" => workflow'.status = workflow.status
       /\ (r2Meta # <<>> /\ r2Meta' # <<>>
            /\ r2Meta[1].status # "running") =>
            /\ r2Meta'[1].status # "running"
            /\ ~RunEnded => r2Meta'[1].status = r2Meta[1].status]_vars

\* What the code does keep of C21: the status never goes back to
\* `running`, and the stored status of a live run takes one terminal value;
\* the status the live run holds goes from `completed` to `failed` only when
\* the save of line 223 rejects.
C21_RunStatusNeverRunningAgain ==
    [][/\ workflow.status # "running" =>
            /\ workflow'.status # "running"
            /\ workflow'.status # workflow.status =>
                  /\ pcRun = "catch"
                  /\ thrown = ErrStore
                  /\ workflow.status = "completed"
                  /\ workflow'.status = "failed"
                  /\ storeFaulty
       /\ (r2Meta # <<>> /\ r2Meta' # <<>>
            /\ r2Meta[1].status # "running") =>
            /\ r2Meta'[1].status # "running"
            /\ ~RunEnded => r2Meta'[1].status = r2Meta[1].status]_vars

\* C22: in the stored record, from the live run through every later replay
\* post, the run's `completedAt` is assigned when the status leaves
\* `running` and at no other time, and once assigned it keeps its value.
C22_CompletedAtAssignedOnce ==
    [][(r2Meta # <<>> /\ r2Meta' # <<>>
            /\ r2Meta'[1].completedAt # r2Meta[1].completedAt) =>
            /\ r2Meta[1].completedAt = NoStamp
            /\ r2Meta[1].status = "running"
            /\ r2Meta'[1].status # "running"]_vars

\* What the code does keep of C22: `completedAt` is assigned only together
\* with a terminal status, and it is assigned a second time only by a replay
\* post that completes a run the live run had stored as failed.
C22_CompletedAtWithTerminalStatus ==
    [][(r2Meta # <<>> /\ r2Meta' # <<>>
            /\ r2Meta'[1].completedAt # r2Meta[1].completedAt) =>
            /\ r2Meta'[1].status \in {"completed", "failed"}
            /\ r2Meta'[1].completedAt # NoStamp
            /\ r2Meta[1].completedAt # NoStamp =>
                  /\ rCommand = "post"
                  /\ pcReplay = "record"
                  /\ r2Meta[1].status = "failed"
                  /\ r2Meta'[1].status = "completed"]_vars

\* C23: every stored record, written by the live run or rewritten by replay
\* post, has the run's `error` set only when the run's status is `failed`.
C23_ErrorOnlyWhenFailed ==
    (r2Meta # <<>> /\ r2Meta[1].error # Null) => r2Meta[1].status = "failed"

\* What the code does keep of C23: the records the live run writes are so,
\* and the catch that sets `error` sets the status `failed` with it; a
\* stored record with `error` and another status is one that replay post
\* has completed.
C23_LiveRunErrorOnlyWhenFailed ==
    /\ workflow.error # Null => workflow.status = "failed"
    /\ (r2Meta # <<>> /\ r2Meta[1].error # Null
            /\ r2Meta[1].status # "failed") =>
          /\ replays >= 1
          /\ r2Meta[1].status = "completed"
          /\ r2Meta[1].posting.data.postId # NoPostId
          /\ posts[r2Meta[1].posting.data.postId].by = "replay"

\* The step the live run is executing at a position of generatePost.
StepAt(pc) ==
    CASE pc \in {"s1_begin", "s1_call", "s1_record"} -> "newsSearch"
      [] pc \in {"s2_begin", "s2_call", "s2_record"} -> "contentGeneration"
      [] pc \in {"s3_begin", "s3_call", "s3_store", "s3_record"} ->
            "imageGeneration"
      [] pc \in {"s4_begin", "s4_call", "s4_store", "s4_record", "s4_catch"} ->
            "videoGeneration"
      [] pc \in {"s5_begin", "s5_call", "s5_record"} -> "posting"
      [] OTHER -> Null

\* C24: the live run changes the record of the step it is executing and of
\* no other step; replay post changes the record of the publish step and of
\* no other step; and a step stored as `completed` is stored unchanged by
\* every later save.
C24_CompletedStepsUnchanged ==
    [][\A st \in StepSet :
        /\ workflow'[st] # workflow[st] => st = StepAt(pcRun)
        /\ (rworkflow # <<>> /\ rworkflow' # <<>>
                /\ rworkflow'[1][st] # rworkflow[1][st]) =>
              st = "posting" /\ pcReplay = "record"
        /\ (r2Meta # <<>> /\ r2Meta' # <<>>
                /\ r2Meta[1][st].status = "completed") =>
              r2Meta'[1][st] = r2Meta[1][st]
        /\ (RunEnded /\ r2Meta # <<>> /\ r2Meta' # <<>>
                /\ r2Meta'[1][st] # r2Meta[1][st]) =>
              st = "posting" /\ pcReplay = "record"]_vars

\* Replay post has completed a run whose live publish failed: the stored
\* records of the four earlier steps are those the live run wrote.
C24_Witness ==
    /\ pcRun = "failed"
    /\ thrown = ErrPost
    /\ rCommand = "post"
    /\ pcReplay = "idle"
    /\ replayExit = 0
    /\ r2Meta # <<>>
    /\ r2Meta[1].posting.status = "completed"
    /\ r2Meta[1].posting # workflow.posting
    /\ \A i \in 1..4 : /\ r2Meta[1][StepNames[i]] = workflow[StepNames[i]]
                       /\ workflow[StepNames[i]].status
                            \in {"completed", "failed"}

\* The position in StepNames of the step a collaborator belongs to.
StepIndexOf(c) ==
    CHOOSE i \in 1..Len(StepNames) : c \in CollaboratorsOf[StepNames[i]]

\* C25: the live run calls the collaborators in the order of the steps; at
\* the call of a step's collaborator that step is `in_progress`, every
\* earlier step is `completed`, or `failed` if it is the video step, every
\* later step is `pending`, and at no time are two steps `in_progress`.
C25_StepsInOrder ==
    [][/\ calls' # calls =>
            LET i == StepIndexOf(calls'[Len(calls')]) IN
            /\ calls' = Append(calls, calls'[Len(calls')])
            /\ \A k \in 1..Len(calls) : StepIndexOf(calls[k]) < i
            /\ workflow[StepNames[i]].status = "in_progress"
            /\ \A j \in 1..(i - 1) :
                  \/ workflow[StepNames[j]].status = "completed"
                  \/ /\ StepNames[j] = "videoGeneration"
                     /\ workflow[StepNames[j]].status = "failed"
            /\ \A j \in (i + 1)..Len(StepNames) :
                  workflow[StepNames[j]].status = "pending"
       /\ Cardinality({st \in StepSet :
                          workflow'[st].status = "in_progress"}) <= 1]_vars

\* All five collaborators were called, the publish after a failed video
\* step.
C25_Witness ==
    /\ calls = <<"searchAINews", "generateContent", "generateImage",
                 "generateVideo", "createImagePost">>
    /\ workflow.videoGeneration.status = "failed"
    /\ workflow.posting.status = "completed"

\* The operations of generatePost that produce content and media.
GenerationCalls ==
    {"searchAINews", "generateContent", "generateImage", "generateVideo"}

Count(log, names) == Len(SelectSeq(log, LAMBDA c : c \in names))

\* C26: in a live run each of searchAINews, generateContent, generateImage
\* and generateVideo is called at most once, and createVideoPost and
\* createImagePost together at most once; after an error reached the outer
\* catch no collaborator is called; replay post calls none of the four
\* generating operations, adds nothing to the calls of the live run, and
\* stores the post content and works from the media keys of the record it
\* loaded.
C26_StepsCalledOnce ==
    [][/\ \A c \in GenerationCalls : Count(calls', {c}) <= 1
       /\ Count(calls', PostCalls) <= 1
       /\ pcRun \in {"catch", "failed", "done", "crashed"} => calls' = calls
       /\ Count(rcalls', GenerationCalls) = 0
       /\ pcReplay # "idle" => calls' = calls
       /\ pcReplay = "download" =>
            LET wf == rworkflow[1] IN
            /\ rVideoPath' => /\ VideoKeyName \in r2Blobs
                              /\ Truthy(wf.videoGeneration.data.videoKey)
            /\ rImagePath' => /\ ImageKeyName \in r2Blobs
                              /\ Truthy(wf.imageGeneration.data.imageKey)
       /\ (pcReplay = "record" /\ r2Meta' # r2Meta) =>
            r2Meta'[1].posting.data.postContent =
                r2Meta[1].contentGeneration.data.postContent]_vars

\* The video step failed and the publish failed in the live run: each
\* collaborator was called once; replay post then published the stored
\* image.
C26_Witness ==
    /\ pcRun = "failed"
    /\ thrown = ErrPost
    /\ calls = <<"searchAINews", "generateContent", "generateImage",
                 "generateVideo", "createImagePost">>
    /\ workflow.videoGeneration.status = "failed"
    /\ rCommand = "post"
    /\ replayExit = 0
    /\ rcalls = <<"getWorkflowMetadata", "downloadWorkflowImage",
                  "createImagePost", "saveWorkflowMetadata">>

----------------------------------------------------------------------------
\* Properties of the processing poll loop (SpecUploadLive).

InPollLoop == pcU \in {"sleeping", "status_wait"}

\* The smallest delay between two status checks: the default of 5 s.
MinCheckDelayMs == DefaultCheckAfterSecs * 1000

\* The most status checks the ceiling leaves room for.
MaxStatusChecks == MAX_PROCESSING_WAIT_MS \div MinCheckDelayMs + 1

\* How waitForMediaProcessing is left in a step: 1 it returned, the
\* processing taken as succeeded, 2 the platform reported it failed, 3 the
\* ceiling was passed, 4 a status check threw.
LoopOutcomes ==
    {k \in 1..4 :
        CASE k = 1 -> /\ pcU' = "tweet_wait"
                      /\ procState' \notin {"pending", "in_progress", "failed"}
                      /\ uMedia' = mediaId
                      /\ uError' = <<>>
          [] k = 2 -> /\ pcU' = "failed"
                      /\ procState' = "failed"
                      /\ uError' = wrapError(ErrProcessingFailed)
          [] k = 3 -> /\ pcU' = "failed"
                      /\ procState' \in {"pending", "in_progress"}
                      /\ elapsed' > MAX_PROCESSING_WAIT_MS
                      /\ uError' = wrapError(ErrTimeout)
          [] k = 4 -> /\ pcU' = "failed"
                      /\ uError' = wrapError(ErrStatus)}

C27_WitnessStatusError ==
    /\ uPolls >= 1
    /\ pcU = "failed"
    /\ uError = wrapError(ErrStatus)

----------------------------------------------------------------------------
\* Properties of an exhausted model fallback (SpecFallback).

\* Every model of the list was tried and failed with a recoverable error.
AllFailedRecoverable ==
    /\ Len(fTried) = Len(modelsOf(fService))
    /\ \A k \in 1..Len(fTried) :
          /\ fTried[k].threw # <<>>
          /\ Recoverable(fService, fTried[k].threw[1])

EndsWith(s, t) ==
    Len(s) >= Len(t) /\ SubSeq(s, Len(s) - Len(t) + 1, Len(s)) = t

\* C28: when every model of the list has failed with a recoverable error,
\* each model has been tried once, in list order, and the call ends by
\* throwing one new error, the error of no model, whose message is the
\* service's prefix followed by the message of the last model's error; that
\* error is thrown in no other case.
C28_AggregateErrorNamesLast ==
    LET models == modelsOf(fService)
        n == Len(fTried)
    IN  /\ AllFailedRecoverable =>
              /\ \A k \in 1..n : fTried[k].model = models[k]
              /\ \/ pcF = "loop" /\ fIdx = n + 1 /\ fOutcome = NoOutcome
                 \/ /\ pcF = "done"
                    /\ fOutcome.kind = "threw"
                    /\ fOutcome.by = Null
                    /\ Len(fOutcome.error) = 1
                    /\ fOutcome.error[1].isError
                    /\ fOutcome.error[1].message[1] = AggregatePrefix(fService)
                    /\ EndsWith(fOutcome.error[1].message,
                                fTried[n].threw[1].message)
                    /\ Len(fOutcome.error[1].message) > 1
        /\ (fOutcome.kind = "threw" /\ fOutcome.by = Null) =>
              AllFailedRecoverable

\* Both Veo models failed with a recoverable error, the last one with
\* "UNAVAILABLE": the aggregate error was thrown.
C28_Witness ==
    /\ pcF = "done"
    /\ fService = "veo"
    /\ Len(fTried) = 2
    /\ AllFailedRecoverable
    /\ fTried[2].threw[1].cond = "unavailable"
    /\ fOutcome.kind = "threw"
    /\ fOutcome.by = Null

\* ---------------------------------------------------------------------
\* Properties of the live run without a configured store (SpecFaulty)
\* ---------------------------------------------------------------------

\* The collaborators of a live run that calls them all, in call order.
AllCalls(vp) ==
    <<"searchAINews", "generateContent", "generateImage", "generateVideo",
      IF vp THEN "createVideoPost" ELSE "createImagePost">>

\* The step whose collaborator gave the error that ended the run.
FailedStepOf(err) ==
    CASE err \in {ErrSearch, ErrNoNews} -> 1
      [] err = ErrContent -> 2
      [] err = ErrImage -> 3
      [] err = ErrPost -> 5

\* The step statuses a live run ends with when no store operation failed:
\* n is the failed step (0 = none), err its error, vp whether a video exists.
EndStatus(j, n, err, vp) ==
    CASE n # 0 /\ j > n -> "pending"
      [] n # 0 /\ j = n -> IF err = ErrNoNews THEN "failed" ELSE "in_progress"
      [] OTHER -> IF StepNames[j] = "videoGeneration" /\ ~vp
                  THEN "failed" ELSE "completed"

PostsOfRun == SelectSeq(posts, LAMBDA p : p.by = "run")

\* The store of the live run never rejects an operation: it is not
\* configured, or it is configured and reliable.
StoreNeverFails == ~r2Configured \/ ~storeFaulty

\* C29: without a configured store no step of the live run changes the
\* bucket, no store error is ever thrown and both media keys are empty,
\* whatever the bucket would have answered; and the collaborators called,
\* their order and the way the run ends are then those of a run whose
\* configured store accepts every operation: they follow from the results
\* of the collaborators alone (the error a collaborator gave, whether a
\* video was made), the same for both stores.
C29_UnconfiguredStoreSameRun ==
    /\ [][~r2Configured =>
            /\ UNCHANGED <<r2Meta, r2Blobs, r2Other>>
            /\ thrown' # ErrStore]_vars
    /\ [](~r2Configured =>
            /\ r2Meta = <<>> /\ r2Blobs = {}
            /\ ~Truthy(imageKey) /\ ~Truthy(videoKey)
            /\ ~Truthy(workflow.imageGeneration.data.imageKey)
            /\ ~Truthy(workflow.videoGeneration.data.videoKey))
    /\ [](StoreNeverFails =>
            /\ calls = SubSeq(AllCalls(videoPath), 1, Len(calls))
            /\ pcRun = "failed" =>
                  /\ thrown \in {ErrSearch, ErrNoNews, ErrContent, ErrImage,
                                 ErrPost}
                  /\ Len(calls) = FailedStepOf(thrown)
                  /\ \A j \in 1..Len(StepNames) :
                        workflow[StepNames[j]].status =
                            EndStatus(j, FailedStepOf(thrown), thrown,
                                      videoPath)
                  /\ workflow.status = "failed"
                  /\ workflow.error = thrown
                  /\ runExit = 1
                  /\ postId = NoPostId
                  /\ PostsOfRun = <<>>
            /\ pcRun = "done" =>
                  /\ thrown \in {Null, ErrVideo}
                  /\ thrown = ErrVideo <=> ~videoPath
                  /\ Len(calls) = Len(StepNames)
                  /\ \A j \in 1..Len(StepNames) :
                        workflow[StepNames[j]].status =
                            EndStatus(j, 0, Null, videoPath)
                  /\ workflow.status = "completed"
                  /\ workflow.error = Null
                  /\ runExit = 0
                  /\ Len(PostsOfRun) = 1
                  /\ posts[postId] = PostsOfRun[1]
                  /\ PostsOfRun[1].mediaType =
                        (IF videoPath THEN "video" ELSE "image"))

\* A live run without a configured store, on a bucket that would reject,
\* made a video and published it.
C29_Witness ==
    /\ ~r2Configured
    /\ storeFaulty
    /\ pcRun = "done"
    /\ videoPath
    /\ calls = AllCalls(TRUE)
    /\ r2Meta = <<>>

\* The same run: the video step failed, then the publish failed.
C29_WitnessFailedPost ==
    /\ ~r2Configured
    /\ pcRun = "failed"
    /\ thrown = ErrPost
    /\ ~videoPath

\* ---------------------------------------------------------------------
\* Properties of the refresh-and-retry cycle (SpecAuthSeq)
\* ---------------------------------------------------------------------

\* The call sends a request in this step.
Sends(r) == req'[r].sent = req[r].sent + 1

\* The call has been through refreshAccessToken and saveTokens.
Refreshed(r) == ~req[r].retry

\* C30: a call is re-issued only from the step in which saveTokens stored the
\* refresh token the exchange issued, which is also the one in memory; the
\* re-issued request carries the access token that exchange issued, which is
\* not the one answered 401; and every request sent after a call of the
\* process has refreshed carries the latest access token issued.
C30_ReissueAfterSaveWithNewToken ==
    [][\A r \in Reqs :
        /\ (req[r].retry /\ ~req'[r].retry) =>
              /\ req[r].pc = "saving"
              /\ kv' = req[r].rtToSave
              /\ tokenStore[1].refreshToken = req[r].rtToSave
              /\ tokenStore[1].accessToken = issued
        /\ (Sends(r) /\ req[r].sent >= 1) =>
              /\ Refreshed(r)
              /\ req[r].refreshes = 1
              /\ kv = tokenStore[1].refreshToken
              /\ req'[r].token = tokenStore[1].accessToken
              /\ req'[r].token = issued
              /\ req'[r].token # req[r].token
        /\ (Sends(r) /\ \E q \in Reqs : Refreshed(q)) =>
              /\ req'[r].token = issued
              /\ req'[r].token # EnvAccessToken]_vars

\* A call answered 401 refreshed, saved the rotated refresh token and was
\* re-issued with the new access token, which the platform accepted.
C30_Witness ==
    \E r \in Reqs :
        /\ req[r].statuses = <<401, 200>>
        /\ req[r].token = issued
        /\ req[r].token # EnvAccessToken
        /\ kv = req[r].rtToSave
        /\ kv = srvRefresh
        /\ kv # PriorRefreshToken

\* A later call of the same process started with the refreshed access
\* token.
C30_WitnessLaterCall ==
    \E r, q \in Reqs :
        /\ r # q
        /\ req[q].pc = "done" /\ ~req[q].retry
        /\ req[r].sent = 1 /\ req[r].retry
        /\ req[r].token = issued
        /\ req[r].statuses = <<200>>

\* ---------------------------------------------------------------------
\* Properties of the posts of one run (Spec)
\* ---------------------------------------------------------------------

\* C31: over one live run and the replay processes that follow it, at most
\* one post is created on the platform for the run.
C31_AtMostOnePost == Len(posts) <= 1

\* What the code does keep of C31: replay post creates a post only when the
\* record it loaded does not have the publish step `completed` with a post
\* id, so a post that was recorded is never repeated.
C31_RecordedPostNotRepeated ==
    [][(posts' # posts /\ pcReplay = "post") =>
            /\ rworkflow # <<>>
            /\ ~(rworkflow[1].posting.status = "completed"
                 /\ rworkflow[1].posting.data.postId # NoPostId)]_vars

\* ---------------------------------------------------------------------
\* Properties of the refresh token in KV (SpecAuthSeq)
\* ---------------------------------------------------------------------

\* getStoredTokens of call r returns or throws in this step.
LoadsTokens(r) == req[r].pc = "loading" /\ req'[r].pc # "loading"

\* C32: getStoredTokens writes the environment's refresh token to KV only
\* when KV holds no token, and never replaces a token that is stored.
C32_StoredTokenNotReplaced ==
    [][\A r \in Reqs :
        (LoadsTokens(r) /\ kv' # kv) =>
            /\ kv = 0
            /\ kv' = EnvRefreshToken]_vars

\* What the code does keep of C32: the only value getStoredTokens writes is
\* the environment's refresh token, and a stored token it was able to read
\* is used and left in place.
C32_ReadTokenKept ==
    [][\A r \in Reqs :
        LoadsTokens(r) =>
            /\ kv' \in {kv, EnvRefreshToken}
            /\ (tokenStore' # <<>> /\ kv # 0
                  /\ tokenStore'[1].refreshToken = kv) => kv' = kv
            /\ tokenStore' # <<>> => tokenStore'[1].refreshToken = kv']_vars

\* refreshAccessToken of call r returns (to the re-issue) or throws in this
\* step.
RefreshEnds(r) ==
    /\ req[r].pc \in {"refresh_wait", "saving"}
    /\ req'[r].pc \in {"getTok", "done"}

\* C33: when refreshAccessToken returns or throws, the refresh token in
\* memory is the refresh token in KV.
C33_MemoryEqualsStore ==
    [][\A r \in Reqs :
        RefreshEnds(r) => tokenStore'[1].refreshToken = kv']_vars

\* What the code does keep of C33: when refreshAccessToken returns, the
\* refresh token in memory is the one in KV and the one the platform accepts.
C33_MemoryEqualsStoreOnReturn ==
    [][\A r \in Reqs :
        (RefreshEnds(r) /\ req'[r].pc = "getTok") =>
            /\ tokenStore'[1].refreshToken = kv'
            /\ kv' = srvRefresh]_vars

\* ---------------------------------------------------------------------
\* Properties of the stored record of a run (SpecFaulty)
\* ---------------------------------------------------------------------

\* The stored record on which no replay process has acted, with the publish
\* step started.
PublishStored ==
    /\ replays = 0
    /\ r2Meta # <<>>
    /\ r2Meta[1].posting.status # "pending"

\* C34: in the record the live run stores once the publish step has
\* started, the media type is `video` exactly when the video step is
\* `completed` and `image` exactly when it is `failed`.
C34_MediaTypeFollowsVideoStep ==
    PublishStored =>
        LET wf == r2Meta[1] IN
        /\ wf.posting.data.mediaType = "video" <=>
              wf.videoGeneration.status = "completed"
        /\ wf.posting.data.mediaType = "image" <=>
              wf.videoGeneration.status = "failed"

\* What the code does keep of C34: the media type stored is `video` exactly
\* when generateVideo returned a video, and the video step is then stored
\* `completed` unless a store operation of the step rejected.
C34_MediaTypeFollowsVideoPath ==
    PublishStored =>
        LET wf == r2Meta[1] IN
        /\ wf.posting.data.mediaType = (IF videoPath THEN "video" ELSE "image")
        /\ wf.videoGeneration.status \in {"completed", "failed"}
        /\ wf.videoGeneration.status = "completed" => videoPath
        /\ (videoPath /\ wf.videoGeneration.status = "failed") =>
              /\ storeFaulty
              /\ wf.videoGeneration.error = ErrStore

\* The stored record has the publish step `completed` with a post id.
PostRecorded ==
    /\ r2Meta[1].posting.status = "completed"
    /\ r2Meta[1].posting.data.postId # NoPostId

\* C35: in every stored record the run is `completed` exactly when the
\* publish step is `completed` with a post id.
C35_CompletedIffPosted ==
    r2Meta # <<>> => (r2Meta[1].status = "completed" <=> PostRecorded)

\* What the code does keep of C35: a stored record with the run `completed`
\* has the publish step `completed` with the id of a post that exists; and
\* a record with the post recorded and the run not `completed` is the live
\* run's, `failed` by the store's error.
C35_CompletedImpliesPosted ==
    r2Meta # <<>> =>
        /\ r2Meta[1].status = "completed" =>
              /\ PostRecorded
              /\ r2Meta[1].posting.data.postId \in 1..Len(posts)
        /\ (PostRecorded /\ r2Meta[1].status # "completed") =>
              /\ storeFaulty
              /\ r2Meta[1].status = "failed"
              /\ r2Meta[1].error = ErrStore

TerminalStatuses == {"completed", "failed", "skipped"}

\* C36: in every stored record with the run `completed`, each of the five
\* steps is `completed`, `failed` or `skipped`.
C36_CompletedRunStepsTerminal ==
    (r2Meta # <<>> /\ r2Meta[1].status = "completed") =>
        \A st \in StepSet : r2Meta[1][st].status \in TerminalStatuses

\* What the code does keep of C36: the record the live run stores as
\* `completed` has every step terminal; in a record replay post completed,
\* the search, content and publish steps are `completed`.
C36_LiveRunStepsTerminal ==
    (r2Meta # <<>> /\ r2Meta[1].status = "completed") =>
        /\ pcRun = "done" =>
              \A st \in StepSet : r2Meta[1][st].status \in TerminalStatuses
        /\ \A st \in {"newsSearch", "contentGeneration", "posting"} :
              r2Meta[1][st].status = "completed"

----------------------------------------------------------------------------
\* Properties of the media id an upload returns (SpecUpload).

\* C37: uploadMediaV2 returns a media id only if the finalize response
\* carried no processing_info or the last processing state observed was
\* `succeeded`, a status response without processing_info counting as
\* `succeeded`.
C37_MediaIdOnlyWhenSucceeded ==
    uMedia # 0 =>
        \/ FinalizeReturned /\ FinalizeCarried = <<>>
        \/ procState = "succeeded"

\* What the code does keep of C37: no media id is returned while the last
\* state observed is `pending`, `in_progress` or `failed`; in those states
\* the upload keeps polling or has failed.
C37_MediaIdNotWhenProcessingOrFailed ==
    /\ uMedia # 0 =>
          /\ uMedia = mediaId
          /\ FinalizeReturned
          /\ FinalizeCarried # <<>> =>
                procState \notin {"pending", "in_progress", "failed"}
    /\ procState \in {"pending", "in_progress"} =>
          pcU \in {"sleeping", "status_wait", "failed"}
    /\ procState = "failed" => pcU = "failed"

\* The calls of the upload that threw.
FailedUploadCalls ==
    SelectSeq(uCalls, LAMBDA c : c.op # "tweet" /\ c.st = "failed")

\* C38: postTweet is called at most once, as the last call, only after
\* initialize, every append, finalize and every status check returned and
\* uploadMediaV2 returned, and it carries the media id initialize
\* returned; when a call of the upload threw, or the processing failed or
\* timed out, postTweet is never called and no tweet id is returned.
C38_PostAfterUploadWithItsMediaId ==
    LET tw == CallsOf("tweet") IN
    /\ Len(tw) <= 1
    /\ tw # <<>> =>
          /\ uCalls[Len(uCalls)] = tw[1]
          /\ \A k \in 1..(Len(uCalls) - 1) : uCalls[k].st = "ok"
          /\ CallsOf("init") # <<>>
          /\ Len(CallsOf("append")) = numChunks(totalBytes)
          /\ FinalizeReturned
          /\ FinalizeCarried # <<>> => ~stillProcessing(procState)
                                       /\ procState # "failed"
          /\ mediaId # 0
          /\ uMedia = mediaId
          /\ tw[1].info = <<mediaId>>
    /\ uResult # 0 => tw # <<>> /\ tw[1].st = "ok" /\ pcU = "posted"
    /\ (FailedUploadCalls # <<>>
          \/ uError \in {wrapError(ErrProcessingFailed), wrapError(ErrTimeout)})
        => /\ tw = <<>>
           /\ uMedia = 0
           /\ uResult = 0
           /\ pcU = "failed"

\* A video of several chunks was uploaded, processed after a status check
\* and posted.
C38_Witness ==
    /\ pcU = "posted"
    /\ uKind = "video"
    /\ uResult # 0
    /\ Len(CallsOf("append")) = MaxChunks
    /\ uPolls > 0
    /\ CallsOf("tweet")[1].info = <<mediaId>>

\* An append threw: the publish ended without a post.
C38_WitnessAppendThrew ==
    /\ pcU = "failed"
    /\ uError = wrapError(ErrAppend)
    /\ CallsOf("tweet") = <<>>

----------------------------------------------------------------------------
\* Properties of the chunks of an upload (SpecUpload).

\* The number of payload bytes the append calls issued so far carry.
RECURSIVE BytesSent(_)
BytesSent(apps) ==
    IF apps = <<>> THEN 0
    ELSE (apps[Len(apps)].to - apps[Len(apps)].from)
            + BytesSent(SubSeq(apps, 1, Len(apps) - 1))

\* C39: the k-th chunk appended has index k - 1 and is the bytes from
\* (k - 1) * CHUNK_SIZE up to k * CHUNK_SIZE or the end of the payload,
\* whichever comes first; it begins where the chunk before it ended, is
\* not empty and not longer than CHUNK_SIZE, and only the last chunk is
\* shorter; once finalize is called the chunks end at totalBytes and
\* carry totalBytes bytes, the size declared at initialize.
C39_ChunksPartitionPayload ==
    LET apps == CallsOf("append") IN
    /\ \A k \in 1..Len(apps) :
          /\ apps[k].idx = k - 1
          /\ apps[k].from = (k - 1) * CHUNK_SIZE
          /\ apps[k].to = (IF k * CHUNK_SIZE <= totalBytes
                           THEN k * CHUNK_SIZE ELSE totalBytes)
          /\ apps[k].from = (IF k = 1 THEN 0 ELSE apps[k - 1].to)
          /\ apps[k].from < apps[k].to
          /\ apps[k].to - apps[k].from <= CHUNK_SIZE
          /\ apps[k].to - apps[k].from < CHUNK_SIZE =>
                /\ apps[k].to = totalBytes
                /\ k = numChunks(totalBytes)
    /\ CallsOf("finalize") # <<>> =>
          /\ CallsOf("init")[1].to = totalBytes
          /\ BytesSent(apps) = totalBytes
          /\ apps # <<>> => apps[Len(apps)].to = totalBytes
          /\ apps = <<>> => totalBytes = 0

\* A payload one byte longer than MaxChunks whole chunks was sent: the
\* last chunk is that byte.
C39_Witness ==
    LET apps == CallsOf("append") IN
    /\ totalBytes = MaxChunks * CHUNK_SIZE + 1
    /\ CallsOf("finalize") # <<>>
    /\ Len(apps) = MaxChunks + 1
    /\ apps[Len(apps)].to - apps[Len(apps)].from = 1

====
